---------------------------- MODULE Spec2Model ----------------------------
(***************************************************************************)
(* A model of the Generative Computer backend (runtime/backend):           *)
(*   - the workspace file endpoints of server.js (GET/PUT                  *)
(*     /api/files/content) over a POSIX-like file system,                  *)
(*   - POST /api/command and invokeGeminiAgent of gemini-agent.js,         *)
(*   - the keyword classifier of smart-simulator.js.                       *)
(* Strings are sequences of one-character strings, so that trimming,       *)
(* prefix tests, splitting and substring search are computed as the code   *)
(* computes them.                                                          *)
(***************************************************************************)
EXTENDS Integers, Sequences, FiniteSets, TLC

----------------------------------------------------------------------------
(* String primitives (JavaScript String.prototype)                         *)

Whitespace == {" ", "\n"}

\* String.prototype.startsWith
StartsWith(s, pre) ==
  /\ Len(pre) <= Len(s)
  /\ SubSeq(s, 1, Len(pre)) = pre

\* String.prototype.endsWith
EndsWith(s, suf) ==
  /\ Len(suf) <= Len(s)
  /\ SubSeq(s, Len(s) - Len(suf) + 1, Len(s)) = suf

RECURSIVE TrimStart(_)
TrimStart(s) ==
  IF s # <<>> /\ Head(s) \in Whitespace THEN TrimStart(Tail(s)) ELSE s

RECURSIVE TrimEnd(_)
TrimEnd(s) ==
  IF s # <<>> /\ s[Len(s)] \in Whitespace
  THEN TrimEnd(SubSeq(s, 1, Len(s) - 1))
  ELSE s

\* String.prototype.trim
Trim(s) == TrimEnd(TrimStart(s))

\* String.prototype.indexOf for a single character; 0 when absent (1-based)
IndexOfChar(s, c) ==
  IF \E i \in 1..Len(s) : s[i] = c
  THEN CHOOSE i \in 1..Len(s) : s[i] = c /\ \A j \in 1..(i - 1) : s[j] # c
  ELSE 0

\* String.prototype.split on a single character: always at least one piece
RECURSIVE Split(_, _)
Split(s, c) ==
  LET i == IndexOfChar(s, c)
  IN  IF i = 0
      THEN <<s>>
      ELSE <<SubSeq(s, 1, i - 1)>> \o Split(SubSeq(s, i + 1, Len(s)), c)

\* String.prototype.includes: substring search
Includes(s, sub) ==
  \E i \in 1..(Len(s) - Len(sub) + 1) : SubSeq(s, i, i + Len(sub) - 1) = sub

\* String.prototype.toLowerCase, on one character
LowerOf(c) ==
  CASE c = "A" -> "a"
    [] c = "B" -> "b"
    [] c = "C" -> "c"
    [] c = "D" -> "d"
    [] c = "E" -> "e"
    [] c = "F" -> "f"
    [] c = "G" -> "g"
    [] c = "H" -> "h"
    [] c = "I" -> "i"
    [] c = "J" -> "j"
    [] c = "K" -> "k"
    [] c = "L" -> "l"
    [] c = "M" -> "m"
    [] c = "N" -> "n"
    [] c = "O" -> "o"
    [] c = "P" -> "p"
    [] c = "Q" -> "q"
    [] c = "R" -> "r"
    [] c = "S" -> "s"
    [] c = "T" -> "t"
    [] c = "U" -> "u"
    [] c = "V" -> "v"
    [] c = "W" -> "w"
    [] c = "X" -> "x"
    [] c = "Y" -> "y"
    [] c = "Z" -> "z"
    [] OTHER -> c

\* a value of a JSON body or query that is not a string
NotAString == <<"not-a-string">>

----------------------------------------------------------------------------
(* node:path (POSIX)                                                       *)

sep == "/"
DOT == <<".">>
DOTDOT == <<".", ".">>

\* normalizeString: "." and empty segments are dropped, ".." pops a segment
\* (and is dropped at the root of an absolute path)
RECURSIVE NormalizeStack(_, _)
NormalizeStack(segs, stack) ==
  IF segs = <<>>
  THEN stack
  ELSE LET s == Head(segs)
       IN  NormalizeStack(
             Tail(segs),
             IF s = <<>> \/ s = DOT
             THEN stack
             ELSE IF s = DOTDOT
                  THEN (IF stack = <<>>
                        THEN stack
                        ELSE SubSeq(stack, 1, Len(stack) - 1))
                  ELSE Append(stack, s))

RECURSIVE JoinSegs(_)
JoinSegs(stack) ==
  IF stack = <<>> THEN <<>> ELSE <<sep>> \o Head(stack) \o JoinSegs(Tail(stack))

\* path.resolve(from, to) for an absolute `from`: an absolute `to` replaces
\* `from`, a relative one is appended; the result is normalized and has no
\* trailing separator
resolve(from, to) ==
  LET joined == IF to # <<>> /\ Head(to) = sep THEN to ELSE from \o <<sep>> \o to
      stack  == NormalizeStack(Split(joined, sep), <<>>)
  IN  IF stack = <<>> THEN <<sep>> ELSE JoinSegs(stack)

\* the index of the separator that ends the directory part, scanning from the
\* end and skipping trailing separators (0 when there is none after index 1)
RECURSIVE DirnameEnd(_, _, _)
DirnameEnd(path, i, matchedSlash) ==
  IF i < 2
  THEN 0
  ELSE IF path[i] = sep
       THEN (IF ~matchedSlash THEN i ELSE DirnameEnd(path, i - 1, matchedSlash))
       ELSE DirnameEnd(path, i - 1, FALSE)

\* path.dirname
dirname(path) ==
  IF path = <<>>
  THEN DOT
  ELSE LET hasRoot == path[1] = sep
           end     == DirnameEnd(path, Len(path), TRUE)
       IN  IF end = 0
           THEN (IF hasRoot THEN <<sep>> ELSE DOT)
           ELSE IF hasRoot /\ end = 2
                THEN <<sep, sep>>
                ELSE SubSeq(path, 1, end - 1)

----------------------------------------------------------------------------
(* server.js: workspace constants                                          *)

\* join(__dirname, '..', 'my-computer'): an absolute, normalized directory
WORKSPACE_DIR == <<"/", "r", "/", "w">>

welcomeName == <<"w", "e", "l", "c", "o", "m", "e", ".", "m", "d">>

\* resolve(WORKSPACE_DIR, 'welcome.md')
welcomePath == resolve(WORKSPACE_DIR, welcomeName)


\* DEFAULT_WELCOME_MARKDOWN, abbreviated to its first heading characters
DEFAULT_WELCOME_MARKDOWN == <<"#", "W">>

----------------------------------------------------------------------------
(* UTF-8, as fs.writeFile(path, string, 'utf-8') and                        *)
(* fs.readFile(path, 'utf-8') encode and decode.  A string is a sequence of *)
(* UTF-16 code units: ASCII letters, "H" a high surrogate (U+D83D), "L" a   *)
(* low surrogate (U+DE00), "R" the replacement character U+FFFD and "?" any *)
(* other character.                                                         *)

AsciiUnits == {"x", "y", "z", "#", "W"}

AsciiCode(c) ==
  CASE c = "x" -> 120
    [] c = "y" -> 121
    [] c = "z" -> 122
    [] c = "#" -> 35
    [] c = "W" -> 87

AsciiChar(b) == CHOOSE c \in AsciiUnits : AsciiCode(c) = b

AsciiBytes == {AsciiCode(c) : c \in AsciiUnits}

ReplacementBytes == <<239, 191, 189>>

\* U+1F600, the code point of the surrogate pair <<"H", "L">>
PairBytes == <<240, 159, 152, 128>>

\* a surrogate pair is encoded as one 4-byte sequence; an unpaired surrogate
\* is encoded as U+FFFD
RECURSIVE Utf8Encode(_)
Utf8Encode(s) ==
  IF s = <<>>
  THEN <<>>
  ELSE LET c == Head(s)
       IN  IF c \in AsciiUnits
           THEN <<AsciiCode(c)>> \o Utf8Encode(Tail(s))
           ELSE IF c = "H" /\ Len(s) >= 2 /\ s[2] = "L"
                THEN PairBytes \o Utf8Encode(SubSeq(s, 3, Len(s)))
                ELSE ReplacementBytes \o Utf8Encode(Tail(s))

IsContinuation(b) == b >= 128 /\ b <= 191

\* how many continuation bytes the lead byte announces (0: not a lead byte)
Announced(b) ==
  IF b >= 240 /\ b <= 244 THEN 3
  ELSE IF b >= 224 /\ b <= 239 THEN 2
  ELSE IF b >= 194 /\ b <= 223 THEN 1
  ELSE 0

RECURSIVE ContinuationRun(_, _)
ContinuationRun(bytes, max) ==
  IF max = 0 \/ bytes = <<>> \/ ~IsContinuation(Head(bytes))
  THEN 0
  ELSE 1 + ContinuationRun(Tail(bytes), max - 1)

\* the decoder replaces every ill-formed maximal subpart by U+FFFD
RECURSIVE Utf8Decode(_)
Utf8Decode(bytes) ==
  IF bytes = <<>>
  THEN <<>>
  ELSE LET b == Head(bytes)
       IN  IF b \in AsciiBytes
           THEN <<AsciiChar(b)>> \o Utf8Decode(Tail(bytes))
           ELSE LET n    == Announced(b)
                    k    == ContinuationRun(Tail(bytes), n)
                    unit == SubSeq(bytes, 1, 1 + k)
                    rest == SubSeq(bytes, 2 + k, Len(bytes))
                IN  IF n = 0 \/ k < n
                    THEN <<"R">> \o Utf8Decode(rest)
                    ELSE IF unit = PairBytes
                         THEN <<"H", "L">> \o Utf8Decode(rest)
                         ELSE IF unit = ReplacementBytes
                              THEN <<"R">> \o Utf8Decode(rest)
                              ELSE <<"?">> \o Utf8Decode(rest)

----------------------------------------------------------------------------
(* The file system: a function from the absolute paths that exist to a     *)
(* directory or a file with its bytes.  An operation returns its errno     *)
(* ("OK" when it succeeds) and the file system it leaves.                  *)

Dir == [kind |-> "dir", bytes |-> <<>>]
File(bytes) == [kind |-> "file", bytes |-> bytes]

RECURSIVE Ancestors(_)
Ancestors(path) ==
  IF dirname(path) = path
  THEN {}
  ELSE {dirname(path)} \cup Ancestors(dirname(path))

IsFile(f, path) == path \in DOMAIN f /\ f[path].kind = "file"
IsDir(f, path) == path \in DOMAIN f /\ f[path].kind = "dir"

\* the errno of looking `path` up
PathError(f, path) ==
  IF \E a \in Ancestors(path) : IsFile(f, a) THEN "ENOTDIR"
  ELSE IF path \notin DOMAIN f THEN "ENOENT"
  ELSE "OK"

\* fs.mkdir(path, { recursive: true })
FsMkdir(f, path) ==
  IF IsFile(f, path) THEN [err |-> "EEXIST", fs |-> f]
  ELSE IF \E a \in Ancestors(path) : IsFile(f, a) THEN [err |-> "ENOTDIR", fs |-> f]
  ELSE [err |-> "OK",
        fs  |-> [q \in DOMAIN f \cup Ancestors(path) \cup {path} |->
                   IF q \in DOMAIN f THEN f[q] ELSE Dir]]

\* open(path, 'w'): creates the file or truncates it
FsOpenTruncate(f, path) ==
  IF PathError(f, dirname(path)) # "OK" THEN [err |-> PathError(f, dirname(path)), fs |-> f]
  ELSE IF IsFile(f, dirname(path)) THEN [err |-> "ENOTDIR", fs |-> f]
  ELSE IF IsDir(f, path) THEN [err |-> "EISDIR", fs |-> f]
  ELSE [err |-> "OK",
        fs  |-> [q \in DOMAIN f \cup {path} |-> IF q = path THEN File(<<>>) ELSE f[q]]]

\* write(fd, bytes) at the descriptor's own offset 0: the bytes replace the
\* file's first Len(bytes) bytes and leave what lies beyond them
FsWriteAtStart(f, path, bytes) ==
  [err |-> "OK",
   fs  |-> [f EXCEPT ![path] =
              File(bytes \o SubSeq(f[path].bytes, Len(bytes) + 1, Len(f[path].bytes)))]]

\* fs.readFile(path)
FsReadFile(f, path) ==
  IF PathError(f, path) # "OK" THEN [err |-> PathError(f, path), bytes |-> <<>>]
  ELSE IF IsDir(f, path) THEN [err |-> "EISDIR", bytes |-> <<>>]
  ELSE [err |-> "OK", bytes |-> f[path].bytes]

----------------------------------------------------------------------------
(* server.js: the workspace file endpoints.  Each request runs as a        *)
(* process whose steps are the handler's awaited file-system operations;   *)
(* fs.writeFile is an open that truncates followed by a write.             *)

VARIABLES
  fs,            \* the file system
  pc,            \* per request process: the operation it awaits next
  method,        \* per process: "GET", "PUT" or "LIST" ("none" before its first request)
  relativePath,  \* per process: the trimmed path of the request
  content,       \* per process: the content of a PUT
  filePath,      \* per process: what resolveWorkspacePath returned
  resp,          \* per process: the response sent
  fsLog,         \* per process: the (operation, path) pairs handed to fs
  nreq,          \* per process: requests started
  lastWrite      \* per path: who opened it for writing last (history)

fileVars == <<fs, pc, method, relativePath, content, filePath, resp, fsLog,
              nreq, lastWrite>>

Procs == {1, 2}

\* requests the single client may start
MaxRequests == 2

\* requests each of the two concurrent clients may start
MaxRaceRequests == 1

NoResp == [status |-> 0, success |-> FALSE, error |-> "", content |-> <<>>,
           expected |-> <<>>, files |-> <<>>]

\* the file system at start-up: the repository directory exists, the
\* workspace does not yet, and a file outside the workspace sits next to it
InitFs ==
  (<<"/">> :> Dir) @@ (<<"/", "r">> :> Dir)
    @@ (<<"/", "r", "/", "w", "x">> :> File(<<122>>))

InitFiles ==
  /\ fs = InitFs
  /\ pc = [p \in Procs |-> "idle"]
  /\ method = [p \in Procs |-> "none"]
  /\ relativePath = [p \in Procs |-> <<>>]
  /\ content = [p \in Procs |-> <<>>]
  /\ filePath = [p \in Procs |-> <<>>]
  /\ resp = [p \in Procs |-> NoResp]
  /\ fsLog = [p \in Procs |-> {}]
  /\ nreq = [p \in Procs |-> 0]
  /\ lastWrite = <<>>

\* resolveWorkspacePath: the resolved path, or the thrown error
resolveWorkspacePath_NoSeparator(rel) ==
  LET safePath == resolve(WORKSPACE_DIR, rel)
  IN  IF safePath # WORKSPACE_DIR /\ ~StartsWith(safePath, WORKSPACE_DIR)
      THEN [ok |-> FALSE, path |-> <<>>]
      ELSE [ok |-> TRUE, path |-> safePath]

resolveWorkspacePath(rel) ==
  LET normalizedRoot == IF EndsWith(WORKSPACE_DIR, <<sep>>)
                        THEN WORKSPACE_DIR
                        ELSE WORKSPACE_DIR \o <<sep>>
      safePath == resolve(WORKSPACE_DIR, rel)
  IN  IF safePath # WORKSPACE_DIR /\ ~StartsWith(safePath, normalizedRoot)
      THEN [ok |-> FALSE, path |-> <<>>]
      ELSE [ok |-> TRUE, path |-> safePath]

\* typeof raw === 'string' ? raw : ''
StringOrEmpty(raw) == IF raw = NotAString THEN <<>> ELSE raw

Log(p, op, path) == fsLog' = [fsLog EXCEPT ![p] = @ \cup {<<op, path>>}]

Respond(p, r) ==
  /\ resp' = [resp EXCEPT ![p] = r]
  /\ pc' = [pc EXCEPT ![p] = "done"]

\* the catch block of GET /api/files/content
GetCatch(p, err) ==
  IF err = "ENOENT"
  THEN Respond(p, [NoResp EXCEPT !.status = 404, !.error = "File not found"])
  ELSE Respond(p, [NoResp EXCEPT !.status = 500, !.error = err])

\* the catch block of PUT /api/files/content
PutCatch(p, err) ==
  Respond(p, [NoResp EXCEPT !.status = 500, !.error = err])

Catch(p, err) == IF method[p] = "GET" THEN GetCatch(p, err) ELSE PutCatch(p, err)

\* a request arrives: the handler's synchronous prologue
Arrive(p, m, rawPath, rawContent) ==
  /\ pc[p] \in {"idle", "done"}
  /\ nreq' = [nreq EXCEPT ![p] = @ + 1]
  /\ method' = [method EXCEPT ![p] = m]
  /\ relativePath' = [relativePath EXCEPT ![p] = Trim(StringOrEmpty(rawPath))]
  /\ content' = [content EXCEPT ![p] = StringOrEmpty(rawContent)]
  /\ filePath' = [filePath EXCEPT ![p] = <<>>]
  /\ fsLog' = [fsLog EXCEPT ![p] = {}]
  /\ IF Trim(StringOrEmpty(rawPath)) = <<>>
     THEN Respond(p, [NoResp EXCEPT !.status = 400, !.error = "Missing file path"])
     ELSE /\ pc' = [pc EXCEPT ![p] = "ens_mkdir"]
          /\ resp' = [resp EXCEPT ![p] = NoResp]
  /\ UNCHANGED <<fs, lastWrite>>

\* app.get('/api/files/content')
GetContent(p, rawPath) == Arrive(p, "GET", rawPath, <<>>)

\* app.put('/api/files/content')
PutContent(p, rawPath, rawContent) == Arrive(p, "PUT", rawPath, rawContent)

\* app.get('/api/files'): the listing has no prologue
ListFiles(p) ==
  /\ pc[p] \in {"idle", "done"}
  /\ nreq' = [nreq EXCEPT ![p] = @ + 1]
  /\ method' = [method EXCEPT ![p] = "LIST"]
  /\ relativePath' = [relativePath EXCEPT ![p] = <<>>]
  /\ content' = [content EXCEPT ![p] = <<>>]
  /\ filePath' = [filePath EXCEPT ![p] = <<>>]
  /\ fsLog' = [fsLog EXCEPT ![p] = {}]
  /\ pc' = [pc EXCEPT ![p] = "ens_mkdir"]
  /\ resp' = [resp EXCEPT ![p] = NoResp]
  /\ UNCHANGED <<fs, lastWrite>>

\* what follows `await ensureWorkspaceDefaults()` in the handler
AfterEnsure(p) == IF method[p] = "LIST" THEN "readdir" ELSE "resolve"

\* ensureWorkspaceDefaults: fs.mkdir(WORKSPACE_DIR, { recursive: true })
EnsureMkdir(p) ==
  /\ pc[p] = "ens_mkdir"
  /\ LET r == FsMkdir(fs, WORKSPACE_DIR)
     IN  /\ fs' = r.fs
         /\ Log(p, "mkdir", WORKSPACE_DIR)
         /\ IF r.err # "OK"
            THEN Catch(p, r.err)
            ELSE pc' = [pc EXCEPT ![p] = "ens_access"] /\ UNCHANGED resp
  /\ UNCHANGED <<method, relativePath, content, filePath, nreq, lastWrite>>

\* ensureWorkspaceDefaults: fs.access(welcomePath), any failure leads to the
\* write of the default note
EnsureAccess(p) ==
  /\ pc[p] = "ens_access"
  /\ Log(p, "access", welcomePath)
  /\ pc' = [pc EXCEPT ![p] =
              IF PathError(fs, welcomePath) = "OK" THEN AfterEnsure(p) ELSE "ens_open"]
  /\ UNCHANGED <<fs, method, relativePath, content, filePath, resp, nreq, lastWrite>>

\* ensureWorkspaceDefaults: fs.writeFile(welcomePath, ...) opens the file
EnsureWriteOpen(p) ==
  /\ pc[p] = "ens_open"
  /\ LET r == FsOpenTruncate(fs, welcomePath)
     IN  /\ fs' = r.fs
         /\ Log(p, "writeFile", welcomePath)
         /\ IF r.err # "OK"
            THEN Catch(p, r.err) /\ UNCHANGED lastWrite
            ELSE /\ pc' = [pc EXCEPT ![p] = "ens_write"]
                 /\ lastWrite' = (welcomePath :> [by |-> 0, text |-> <<>>,
                                                  clean |-> FALSE, done |-> FALSE])
                                   @@ lastWrite
                 /\ UNCHANGED resp
  /\ UNCHANGED <<method, relativePath, content, filePath, nreq>>

\* ensureWorkspaceDefaults: fs.writeFile(welcomePath, ...) writes the note
EnsureWriteData(p) ==
  /\ pc[p] = "ens_write"
  /\ fs' = FsWriteAtStart(fs, welcomePath, Utf8Encode(DEFAULT_WELCOME_MARKDOWN)).fs
  /\ lastWrite' = [lastWrite EXCEPT ![welcomePath].clean = FALSE]
  /\ pc' = [pc EXCEPT ![p] = AfterEnsure(p)]
  /\ UNCHANGED <<method, relativePath, content, filePath, resp, fsLog, nreq>>

\* const filePath = resolveWorkspacePath(relativePath), and the call of the
\* first operation on it
ResolvePath(p) ==
  /\ pc[p] = "resolve"
  /\ LET r == resolveWorkspacePath(relativePath[p])
     IN  IF ~r.ok
         THEN Catch(p, "Invalid workspace path") /\ UNCHANGED filePath
         ELSE /\ filePath' = [filePath EXCEPT ![p] = r.path]
              /\ pc' = [pc EXCEPT ![p] = IF method[p] = "GET" THEN "readFile" ELSE "mkdir"]
              /\ UNCHANGED resp
  /\ UNCHANGED <<fs, method, relativePath, content, fsLog, nreq, lastWrite>>

\* GET: fs.readFile(filePath, 'utf-8') and the response
ReadFile(p) ==
  /\ pc[p] = "readFile"
  /\ Log(p, "readFile", filePath[p])
  /\ LET r == FsReadFile(fs, filePath[p])
         w == IF filePath[p] \in DOMAIN lastWrite
              THEN lastWrite[filePath[p]]
              ELSE [by |-> 0, text |-> <<>>, clean |-> FALSE, done |-> FALSE]
     IN  IF r.err # "OK"
         THEN Catch(p, r.err)
         ELSE Respond(p, [NoResp EXCEPT !.status = 200, !.success = TRUE,
                            !.content = Utf8Decode(r.bytes),
                            !.expected = IF w.clean /\ w.done THEN <<w.text>> ELSE <<>>])
  /\ UNCHANGED <<fs, method, relativePath, content, filePath, nreq, lastWrite>>

\* PUT: fs.mkdir(dirname(filePath), { recursive: true })
MkdirParent(p) ==
  /\ pc[p] = "mkdir"
  /\ LET r == FsMkdir(fs, dirname(filePath[p]))
     IN  /\ fs' = r.fs
         /\ Log(p, "mkdir", dirname(filePath[p]))
         /\ IF r.err # "OK"
            THEN Catch(p, r.err)
            ELSE pc' = [pc EXCEPT ![p] = "wf_open"] /\ UNCHANGED resp
  /\ UNCHANGED <<method, relativePath, content, filePath, nreq, lastWrite>>

\* the file as fs.writeFile's open leaves it: flag 'w' truncates
OpenForWrite_NoTruncate(f, path) ==
  IF FsOpenTruncate(f, path).err = "OK" /\ path \in DOMAIN f
  THEN [err |-> "OK", fs |-> f]
  ELSE FsOpenTruncate(f, path)

OpenForWrite(f, path) == FsOpenTruncate(f, path)

\* PUT: fs.writeFile(filePath, content, 'utf-8') opens the file
WriteFileOpen(p) ==
  /\ pc[p] = "wf_open"
  /\ LET r == OpenForWrite(fs, filePath[p])
     IN  /\ fs' = r.fs
         /\ Log(p, "writeFile", filePath[p])
         /\ IF r.err # "OK"
            THEN Catch(p, r.err) /\ UNCHANGED lastWrite
            ELSE /\ pc' = [pc EXCEPT ![p] = "wf_write"]
                 /\ lastWrite' = (filePath[p] :> [by |-> p, text |-> content[p],
                                                  clean |-> TRUE, done |-> FALSE])
                                   @@ lastWrite
                 /\ UNCHANGED resp
  /\ UNCHANGED <<method, relativePath, content, filePath, nreq>>

\* PUT: fs.writeFile(filePath, content, 'utf-8') writes the encoded content
WriteFileData(p) ==
  /\ pc[p] = "wf_write"
  /\ fs' = FsWriteAtStart(fs, filePath[p], Utf8Encode(content[p])).fs
  /\ lastWrite' = IF lastWrite[filePath[p]].by = p
                  THEN lastWrite
                  ELSE [lastWrite EXCEPT ![filePath[p]].clean = FALSE]
  /\ pc' = [pc EXCEPT ![p] = "stat"]
  /\ UNCHANGED <<method, relativePath, content, filePath, resp, fsLog, nreq>>

\* PUT: fs.stat(filePath) and the response
StatAndRespond(p) ==
  /\ pc[p] = "stat"
  /\ Log(p, "stat", filePath[p])
  /\ IF PathError(fs, filePath[p]) # "OK"
     THEN Catch(p, PathError(fs, filePath[p])) /\ UNCHANGED lastWrite
     ELSE /\ Respond(p, [NoResp EXCEPT !.status = 200, !.success = TRUE])
          /\ lastWrite' = IF lastWrite[filePath[p]].by = p
                          THEN [lastWrite EXCEPT ![filePath[p]].done = TRUE]
                          ELSE lastWrite
  /\ UNCHANGED <<fs, method, relativePath, content, filePath, nreq>>

\* the letters in the order of the collation
Alphabet ==
  <<"a", "b", "c", "d", "e", "f", "g", "h", "i", "j", "k", "l", "m", "n", "o",
    "p", "q", "r", "s", "t", "u", "v", "w", "x", "y", "z">>

\* the primary weight of a character in the collation localeCompare uses:
\* punctuation before letters, letters in alphabetical order whatever their
\* case
PrimaryWeight(c) ==
  IF \E i \in DOMAIN Alphabet : Alphabet[i] = LowerOf(c)
  THEN CHOOSE i \in DOMAIN Alphabet : Alphabet[i] = LowerOf(c)
  ELSE 0

\* a.localeCompare(b) < 0, = 0, > 0 as -1, 0, 1: the primary weights decide,
\* a prefix before its extensions; between names equal but for case the
\* first difference decides, lower case first
RECURSIVE ComparePrimary(_, _)
ComparePrimary(a, b) ==
  IF a = <<>> THEN (IF b = <<>> THEN 0 ELSE -1)
  ELSE IF b = <<>> THEN 1
  ELSE IF PrimaryWeight(Head(a)) < PrimaryWeight(Head(b)) THEN -1
  ELSE IF PrimaryWeight(Head(a)) > PrimaryWeight(Head(b)) THEN 1
  ELSE ComparePrimary(Tail(a), Tail(b))

RECURSIVE CompareCase(_, _)
CompareCase(a, b) ==
  IF a = <<>> \/ b = <<>> THEN 0
  ELSE IF Head(a) = Head(b) THEN CompareCase(Tail(a), Tail(b))
  ELSE IF Head(a) = LowerOf(Head(a)) THEN -1 ELSE 1

localeCompare(a, b) ==
  IF ComparePrimary(a, b) # 0 THEN ComparePrimary(a, b) ELSE CompareCase(a, b)

\* files.sort((a, b) => a.name.localeCompare(b.name)): a stable sort
RECURSIVE InsertSorted(_, _)
InsertSorted(sorted, f) ==
  IF sorted = <<>> THEN <<f>>
  ELSE IF localeCompare(f.name, Head(sorted).name) < 0 THEN <<f>> \o sorted
  ELSE <<Head(sorted)>> \o InsertSorted(Tail(sorted), f)

SortFiles_Unsorted(files) == files

RECURSIVE SortFiles(_)
SortFiles(files) ==
  IF files = <<>> THEN <<>>
  ELSE InsertSorted(SortFiles(SubSeq(files, 1, Len(files) - 1)), files[Len(files)])

\* the paths of the entries of the directory dir
ChildrenOf(f, dir) == {q \in DOMAIN f : q # dir /\ Len(q) > 1 /\ dirname(q) = dir}

\* the orders in which readdir can return a set of entries
OrdersOf(S) ==
  {o \in [1..Cardinality(S) -> S] : \A i, j \in 1..Cardinality(S) : o[i] = o[j] => i = j}

\* Dirent.name of the entry at path q of the workspace root
EntryName(q) == SubSeq(q, Len(WORKSPACE_DIR) + 2, Len(q))

\* mapFileMetadata(name, stats)
mapFileMetadata(name, stats) == [name |-> name, path |-> name, size |-> stats.size]

\* app.get('/api/files') after ensureWorkspaceDefaults: readdir in the order
\* the system gives, the entries that are files resolved and stat'ed,
\* sorted and sent
ReaddirAndRespond(p) ==
  /\ pc[p] = "readdir"
  /\ Log(p, "readdir", WORKSPACE_DIR)
  /\ IF PathError(fs, WORKSPACE_DIR) # "OK" \/ ~IsDir(fs, WORKSPACE_DIR)
     THEN Catch(p, "ENOTDIR")
     ELSE \E entries \in OrdersOf(ChildrenOf(fs, WORKSPACE_DIR)) :
            LET isFile == SelectSeq(entries, LAMBDA q : IsFile(fs, q))
                files == [k \in 1..Len(isFile) |->
                            mapFileMetadata(EntryName(isFile[k]),
                                            [size |-> Len(fs[isFile[k]].bytes)])]
            IN  IF \E k \in 1..Len(isFile) :
                     ~resolveWorkspacePath(EntryName(isFile[k])).ok
                THEN Catch(p, "Invalid workspace path")
                ELSE Respond(p, [NoResp EXCEPT !.status = 200, !.success = TRUE,
                                               !.files = SortFiles(files)])
  /\ UNCHANGED <<fs, method, relativePath, content, filePath, nreq, lastWrite>>

HandlerStep(p) ==
  \/ EnsureMkdir(p)
  \/ EnsureAccess(p)
  \/ EnsureWriteOpen(p)
  \/ EnsureWriteData(p)
  \/ ResolvePath(p)
  \/ ReadFile(p)
  \/ MkdirParent(p)
  \/ WriteFileOpen(p)
  \/ WriteFileData(p)
  \/ StatAndRespond(p)

----------------------------------------------------------------------------
(* Request inputs                                                          *)

\* the `path` values of the requests
RequestPaths ==
  { <<"a">>,                                   \* a
    <<" ", "a", " ">>,                         \* " a ", trimmed by the handler
    <<"d", "/", "a">>,                         \* d/a
    welcomeName,                               \* welcome.md
    welcomeName \o <<"/", "x">>,               \* welcome.md/x
    <<".">>,                                   \* .
    <<"a", "/", ".", ".", "/", "a">>,          \* a/../a
    <<".", ".", "/", "w", "/", "a">>,          \* ../w/a
    <<"/", "r", "/", "w", "/", "a">>,          \* /r/w/a
    <<".", ".", "/", "w", "x">>,               \* ../wx
    <<"/", "r", "/", "w", "x">>,               \* /r/wx
    <<".", ".">>,                              \* ..
    <<>>,                                      \* the empty string
    <<" ", " ">>,                              \* blanks only
    NotAString }

\* the longest content, in UTF-16 code units
MaxContentLen == 2

ContentUnits == {"x", "H", "L"}

RECURSIVE StringsUpTo(_, _)
StringsUpTo(alphabet, n) ==
  IF n = 0
  THEN {<<>>}
  ELSE LET shorter == StringsUpTo(alphabet, n - 1)
       IN  shorter \cup {Append(s, c) : s \in shorter, c \in alphabet}

\* the `content` values of the PUT requests
RequestContents == StringsUpTo(ContentUnits, MaxContentLen) \cup {NotAString}

\* one client, every path
NextPaths ==
  \/ \E rawPath \in RequestPaths :
       nreq[1] < MaxRequests /\ GetContent(1, rawPath)
  \/ \E rawPath \in RequestPaths, rawContent \in {<<"x">>, NotAString} :
       nreq[1] < MaxRequests /\ PutContent(1, rawPath, rawContent)
  \/ HandlerStep(1)

RacePaths == {<<"a">>, welcomeName}

RaceContents == {<<"x">>, <<"y", "z">>, <<"H">>}

\* two clients whose requests interleave
NextRace ==
  \E p \in Procs :
    \/ \E rawPath \in RacePaths :
         nreq[p] < MaxRaceRequests /\ GetContent(p, rawPath)
    \/ \E rawPath \in RacePaths, rawContent \in RaceContents :
         nreq[p] < MaxRaceRequests /\ PutContent(p, rawPath, rawContent)
    \/ HandlerStep(p)

\* one client, every content
NextContent ==
  \/ \E rawPath \in RacePaths :
       nreq[1] < MaxRequests /\ GetContent(1, rawPath)
  \/ \E rawPath \in RacePaths, rawContent \in RequestContents :
       nreq[1] < MaxRequests /\ PutContent(1, rawPath, rawContent)
  \/ HandlerStep(1)

\* requests the client of the listing may start
MaxListRequests == 4

ListPaths == {<<"a">>, <<"B">>, <<"b">>, <<"d", "/", "a">>}

\* one client that writes files and lists them
NextList ==
  \/ \E rawPath \in ListPaths :
       nreq[1] < MaxListRequests /\ PutContent(1, rawPath, <<"x">>)
  \/ nreq[1] < MaxListRequests /\ ListFiles(1)
  \/ HandlerStep(1)
  \/ ReaddirAndRespond(1)

----------------------------------------------------------------------------
(* Properties of the workspace file endpoints                              *)

\* the segments of an absolute path
Segments(path) == NormalizeStack(Split(path, sep), <<>>)

\* `path` is the workspace root or lies under it, segment by segment
InsideWorkspace(path) ==
  LET root == Segments(WORKSPACE_DIR)
      segs == Segments(path)
  IN  Len(root) <= Len(segs) /\ SubSeq(segs, 1, Len(root)) = root

\* the caller's path resolves outside the workspace
Escapes(rel) == ~InsideWorkspace(resolve(WORKSPACE_DIR, rel))

HasDotDotSegment(rel) == \E i \in 1..Len(Split(rel, sep)) : Split(rel, sep)[i] = DOTDOT

IsAbsolute(rel) == rel # <<>> /\ Head(rel) = sep

\* what ensureWorkspaceDefaults hands to fs
EnsureOps ==
  {<<"mkdir", WORKSPACE_DIR>>, <<"access", welcomePath>>, <<"writeFile", welcomePath>>}

BeforeResolve == {"ens_mkdir", "ens_access", "ens_open", "ens_write", "resolve"}

\* C1: a candidate path is accepted only if it resolves to the root or under
\* root + separator, no file-system operation uses the candidate path before
\* that check, and every path a request hands to a file-system operation
\* (the parent directory that PUT creates included) is the root or inside it.
C1_EveryFsPathInsideWorkspace ==
  \A p \in Procs :
    /\ filePath[p] # <<>> => InsideWorkspace(filePath[p])
    /\ pc[p] \in BeforeResolve => fsLog[p] \subseteq EnsureOps
    /\ \A e \in fsLog[p] : InsideWorkspace(e[2])

WellFormed(s) ==
  \A i \in 1..Len(s) :
    /\ s[i] = "H" => (i < Len(s) /\ s[i + 1] = "L")
    /\ s[i] = "L" => (i > 1 /\ s[i - 1] = "H")

\* a read that followed a completed write of its path with no write to that
\* path in between (resp.expected holds what that write was given)
ReadAfterWrite(p) ==
  /\ pc[p] = "done"
  /\ method[p] = "GET"
  /\ resp[p].success
  /\ resp[p].expected # <<>>

\* C6, as claimed: for every content string, a read that follows a successful
\* write of the same path, with no write to it in between, returns exactly
\* the content written.
C6_ReadReturnsWritten ==
  \A p \in Procs : ReadAfterWrite(p) => resp[p].content = resp[p].expected[1]

\* C6, amended: the same, for every content string that is well-formed
\* UTF-16 (no unpaired surrogate); an unpaired surrogate is stored as U+FFFD.
C6_ReadReturnsWrittenWellFormed ==
  \A p \in Procs :
    (ReadAfterWrite(p) /\ WellFormed(resp[p].expected[1]))
      => resp[p].content = resp[p].expected[1]

\* C6 witness: a read returned a non-empty content written by the other
\* client over an existing file
C6_Witness ==
  \E p \in Procs :
    /\ ReadAfterWrite(p)
    /\ WellFormed(resp[p].expected[1])
    /\ Len(resp[p].expected[1]) = 2
    /\ filePath[p] = welcomePath
    /\ lastWrite[welcomePath].by # p

\* C7: when two writes of the same path run concurrently, the content finally
\* stored is one of the two full payloads.
C7_FinalContentIsOnePayload ==
  \A p, q \in Procs :
    ( /\ p # q
      /\ pc[p] = "done" /\ pc[q] = "done"
      /\ method[p] = "PUT" /\ method[q] = "PUT"
      /\ resp[p].success /\ resp[q].success
      /\ filePath[p] = filePath[q] )
      => fs[filePath[p]].bytes \in {Utf8Encode(content[p]), Utf8Encode(content[q])}

\* C8: a request whose path escapes the workspace, and a read of a path that
\* does not exist, are answered with a 4xx status, success=false and an
\* error message.
C8_ClientErrorsAre4xx ==
  \A p \in Procs :
    ( /\ pc[p] = "done"
      /\ relativePath[p] # <<>>
      /\ \/ Escapes(relativePath[p])
         \/ (method[p] = "GET" /\ filePath[p] # <<>>
               /\ PathError(fs, filePath[p]) = "ENOENT") )
      => (resp[p].status \in 400..499 /\ ~resp[p].success /\ resp[p].error # "")

\* C28: once a client's write of welcome.md has been answered with success,
\* the file does not hold the default welcome text: ensureWorkspaceDefaults
\* writes the default note only when welcome.md is absent.
C28_WrittenWelcomeNotReplacedByDefault ==
  \A p \in Procs :
    ( /\ pc[p] = "done" /\ method[p] = "PUT" /\ resp[p].success
      /\ filePath[p] = welcomePath )
      => /\ IsFile(fs, welcomePath)
         /\ fs[welcomePath].bytes # Utf8Encode(DEFAULT_WELCOME_MARKDOWN)

----------------------------------------------------------------------------
(* gemini-agent.js: invokeGeminiAgent, and server.js: POST /api/command    *)

VARIABLES
  USE_REAL_AGENT,  \* process.env.USE_REAL_AGENT === 'true'
  DEBUG_AGENT,     \* process.env.DEBUG_AGENT === 'true'
  cmd              \* per command: the handler's position, its response and
                   \* the agent invocation it started

agentVars == <<USE_REAL_AGENT, DEBUG_AGENT, cmd>>

Cmds == {1, 2}

\* what the subprocess wrote to stdout: text before the first "{", and from
\* the first "{" on either nothing, text that JSON.parse refuses, or an
\* envelope with its `response` and `stats` fields
Stdout(lead, body, response, stats) ==
  [lead |-> lead, body |-> body, response |-> response, stats |-> stats]

Leads == {"", "blank", "text"}
Responses == {"absent", "null", "", "blank", "text", "not-a-string"}
StatsValues == {"absent", "valid", "malformed"}

Stdouts ==
  {Stdout(l, "none", "absent", "absent") : l \in Leads}
    \cup {Stdout(l, "badjson", "absent", "absent") : l \in {"", "text"}}
    \cup {Stdout(l, "envelope", r, st) : l \in {"", "text"}, r \in Responses,
                                         st \in StatsValues}

\* output.trim() is the empty string
TrimmedEmpty(out) == out.body = "none" /\ out.lead \in {"", "blank"}

\* parseGeminiJsonOutput: the parsed envelope, or null
parseGeminiJsonOutput(out) ==
  IF TrimmedEmpty(out) THEN "null"
  ELSE IF out.body = "none" THEN "null"
  ELSE IF out.body = "badjson" THEN "null"
  ELSE "object"

\* parsed?.response ?? trimmedOutput, as the kind of value it is: "" , "blank"
\* and "text" are strings, "not-a-string" any other JSON value
ResponseText(out) ==
  IF parseGeminiJsonOutput(out) = "object" /\ out.response \notin {"absent", "null"}
  THEN out.response
  ELSE IF TrimmedEmpty(out) THEN "" ELSE "text"

\* parsed?.stats, when truthy
StatsOf(out) ==
  IF parseGeminiJsonOutput(out) = "object" THEN out.stats ELSE "absent"

NoInvocation ==
  [promise |-> "none", error |-> "", child |-> "none", timer |-> "unset",
   killed |-> FALSE, closeH |-> "none", errorH |-> "none",
   pending |-> "", exitCode |-> "none", claimed |-> "none",
   spawns |-> 0, logs |-> 0]

NoCmdResp == [status |-> 0, success |-> FALSE, mode |-> "", error |-> "",
              fallbackError |-> ""]

InitAgent ==
  /\ USE_REAL_AGENT \in BOOLEAN
  /\ DEBUG_AGENT \in BOOLEAN
  /\ cmd = [c \in Cmds |-> [pc |-> "idle", command |-> "", resp |-> NoCmdResp,
                            agentError |-> "", simulator |-> "none",
                            inv |-> NoInvocation]]

\* resolve(...) and reject(...) of the promise: only the first call settles it
resolvePromise(inv) ==
  IF inv.promise = "pending" THEN [inv EXCEPT !.promise = "resolved"] ELSE inv

rejectPromise(inv, message) ==
  IF inv.promise = "pending"
  THEN [inv EXCEPT !.promise = "rejected", !.error = message]
  ELSE inv

\* clearTimeout(timeout)
clearTimeout_Forgotten(timer) == timer

clearTimeout(timer) == IF timer = "armed" THEN "cleared" ELSE timer

\* writeDebugLog: a file is written only when DEBUG_AGENT is set
writeDebugLog(inv) == IF DEBUG_AGENT THEN [inv EXCEPT !.logs = @ + 1] ELSE inv

\* what req.body.command can be: a string, or undefined when the body has
\* no such field
Commands == {"string", "undefined"}

\* POST /api/command arrives.  With the agent enabled invokeGeminiAgent is
\* called: ensureNodeVersion throws, or the prompt is assembled.
PostCommand(c, command, nodeOk) ==
  /\ cmd[c].pc = "idle"
  /\ cmd' = [cmd EXCEPT ![c] =
       IF USE_REAL_AGENT
       THEN [@ EXCEPT !.pc = "agent",
                      !.command = command,
                      !.inv = IF nodeOk
                              THEN [NoInvocation EXCEPT !.promise = "pending",
                                                        !.child = "preflight"]
                              ELSE [NoInvocation EXCEPT !.promise = "rejected",
                                                        !.error = "node-version"]]
       ELSE [@ EXCEPT !.pc = "simulate", !.command = command]]
  /\ UNCHANGED <<USE_REAL_AGENT, DEBUG_AGENT>>

\* a spawn that is tried again after the subprocess closed
SpawnAgent_Retry(c, bundleOk, spawnOk) ==
  /\ cmd[c].inv.child \in {"preflight", "closed"}
  /\ cmd[c].inv.spawns < 3
  /\ cmd' = [cmd EXCEPT ![c].inv =
       IF ~bundleOk
       THEN [@ EXCEPT !.promise = "rejected", !.error = "bundle-missing",
                      !.child = "none"]
       ELSE [@ EXCEPT !.child = IF spawnOk THEN "running" ELSE "failed",
                      !.timer = "armed",
                      !.spawns = @ + 1]]
  /\ UNCHANGED <<USE_REAL_AGENT, DEBUG_AGENT>>

\* fs.access(GEMINI_BUNDLE) fails, or the subprocess is spawned (the spawn
\* itself may fail, which the child reports by an 'error' event) and the
\* timer armed
SpawnAgent(c, bundleOk, spawnOk) ==
  /\ cmd[c].inv.child = "preflight"
  /\ cmd' = [cmd EXCEPT ![c].inv =
       IF ~bundleOk
       THEN [@ EXCEPT !.promise = "rejected", !.error = "bundle-missing",
                      !.child = "none"]
       ELSE [@ EXCEPT !.child = IF spawnOk THEN "running" ELSE "failed",
                      !.timer = "armed",
                      !.spawns = @ + 1]]
  /\ UNCHANGED <<USE_REAL_AGENT, DEBUG_AGENT>>

\* the setTimeout callback: gemini.kill() and reject(timed out).  A failed
\* spawn emits 'error' on the next tick, before any timer callback can run.
TimerFires(c) ==
  /\ cmd[c].inv.timer = "armed"
  /\ cmd[c].inv.child # "failed"
  /\ cmd' = [cmd EXCEPT ![c].inv =
       rejectPromise([@ EXCEPT !.timer = "fired", !.killed = TRUE], "timeout")]
  /\ UNCHANGED <<USE_REAL_AGENT, DEBUG_AGENT>>

\* the condition under which a close is claimed to be a success: exit code 0,
\* no API-failure signature in stderr, and a response text (the envelope's
\* response field when it has one, the raw stdout otherwise) that is not
\* empty after trimming
CloseIsSuccess(code, out, apiError) ==
  /\ code = "0"
  /\ ~apiError
  /\ IF out.body = "envelope" /\ out.response \notin {"absent", "null"}
     THEN out.response \notin {"", "blank"}
     ELSE ~TrimmedEmpty(out)

\* what the 'close' listener does up to its first await: "throw" when it
\* throws, else the settlement it makes after writeDebugLog
CloseDecision(code, out, apiError) ==
  IF code = "0"
  THEN IF StatsOf(out) = "malformed" THEN "throw"
       ELSE IF apiError THEN "reject:api-error"
       ELSE IF ResponseText(out) = "not-a-string" THEN "throw"
       ELSE IF ResponseText(out) \in {"", "blank"} THEN "reject:no-output"
       ELSE "resolve"
  ELSE "reject:exit-code"

\* the exit codes (as printed) a close can report: the spawn errno when the
\* spawn failed, null when a signal ended the subprocess
ExitCodes(inv) ==
  IF inv.child = "failed" THEN {"-2"}
  ELSE IF inv.killed THEN {"null", "0", "1"}
  ELSE {"0", "1"}

\* gemini.on('close'), up to its first await
ChildClose(c, code, out, apiError) ==
  /\ \/ cmd[c].inv.child = "running"
     \/ cmd[c].inv.child = "failed" /\ cmd[c].inv.errorH # "none"
  /\ code \in ExitCodes(cmd[c].inv)
  /\ LET d == CloseDecision(code, out, apiError)
     IN  cmd' = [cmd EXCEPT ![c].inv =
           [@ EXCEPT !.child = "closed",
                     !.timer = clearTimeout(@),
                     !.exitCode = code,
                     !.claimed = IF CloseIsSuccess(code, out, apiError)
                                 THEN "success" ELSE "failure",
                     !.closeH = IF d = "throw" THEN "threw" ELSE "log",
                     !.pending = d]]
  /\ UNCHANGED <<USE_REAL_AGENT, DEBUG_AGENT>>

\* gemini.on('close'), after await writeDebugLog: resolve or reject
CloseSettles(c) ==
  /\ cmd[c].inv.closeH = "log"
  /\ cmd' = [cmd EXCEPT ![c].inv =
       LET logged == [writeDebugLog(@) EXCEPT !.closeH = "done"]
       IN  IF @.pending = "resolve"
           THEN resolvePromise(logged)
           ELSE rejectPromise(logged, @.pending)]
  /\ UNCHANGED <<USE_REAL_AGENT, DEBUG_AGENT>>

\* gemini.on('error'), up to its first await
ChildError(c) ==
  /\ cmd[c].inv.child = "failed"
  /\ cmd[c].inv.errorH = "none"
  /\ cmd' = [cmd EXCEPT ![c].inv =
       [@ EXCEPT !.timer = clearTimeout(@), !.errorH = "log"]]
  /\ UNCHANGED <<USE_REAL_AGENT, DEBUG_AGENT>>

\* gemini.on('error'), after await writeDebugLog: reject(error)
ErrorSettles(c) ==
  /\ cmd[c].inv.errorH = "log"
  /\ cmd' = [cmd EXCEPT ![c].inv =
       rejectPromise([writeDebugLog(@) EXCEPT !.errorH = "done"], "spawn-error")]
  /\ UNCHANGED <<USE_REAL_AGENT, DEBUG_AGENT>>

\* POST /api/command: await invokeGeminiAgent(command) returned
AgentReturned(c) ==
  /\ cmd[c].pc = "agent"
  /\ cmd[c].inv.promise = "resolved"
  /\ cmd' = [cmd EXCEPT ![c].pc = "responded",
                        ![c].resp = [NoCmdResp EXCEPT !.status = 200,
                                       !.success = TRUE, !.mode = "REAL"]]
  /\ UNCHANGED <<USE_REAL_AGENT, DEBUG_AGENT>>

\* POST /api/command: await invokeGeminiAgent(command) threw agentError
AgentThrew_DropsError(c) ==
  /\ cmd[c].pc = "agent"
  /\ cmd[c].inv.promise = "rejected"
  /\ cmd' = [cmd EXCEPT ![c].pc = "fallback"]
  /\ UNCHANGED <<USE_REAL_AGENT, DEBUG_AGENT>>

AgentThrew(c) ==
  /\ cmd[c].pc = "agent"
  /\ cmd[c].inv.promise = "rejected"
  /\ cmd' = [cmd EXCEPT ![c].pc = "fallback",
                        ![c].agentError = cmd[c].inv.error]
  /\ UNCHANGED <<USE_REAL_AGENT, DEBUG_AGENT>>

\* simulateAgentResponse(command): buildExperienceProfile calls
\* command.toLowerCase(), which throws when command is not a string, and
\* generateSmartExperience awaits fs.writeFile, which can fail
simulateAgentResponse(command, writeOk) ==
  IF command = "string" /\ writeOk THEN "ok" ELSE "threw"

\* POST /api/command: await simulateAgentResponse(command) returned or threw,
\* on the simulated path and on the fallback path
SimulatorDone(c, writeOk) ==
  /\ cmd[c].pc \in {"simulate", "fallback"}
  /\ LET simulatorOk == simulateAgentResponse(cmd[c].command, writeOk) = "ok" IN
     cmd' = [cmd EXCEPT ![c].pc = "responded",
                        ![c].simulator = IF simulatorOk THEN "ok" ELSE "threw",
                        ![c].resp =
       IF cmd[c].pc = "simulate"
       THEN IF simulatorOk
            THEN [NoCmdResp EXCEPT !.status = 200, !.success = TRUE,
                                   !.mode = "SIMULATED"]
            ELSE [NoCmdResp EXCEPT !.status = 500, !.error = "simulator-error"]
       ELSE IF simulatorOk
            THEN [NoCmdResp EXCEPT !.status = 200, !.success = TRUE,
                                   !.mode = "SIMULATED_FALLBACK",
                                   !.error = cmd[c].agentError]
            ELSE [NoCmdResp EXCEPT !.status = 500,
                                   !.error = cmd[c].agentError,
                                   !.fallbackError = "simulator-error"]]
  /\ UNCHANGED <<USE_REAL_AGENT, DEBUG_AGENT>>

CommandStep(c) ==
  \/ \E command \in Commands, nodeOk \in BOOLEAN : PostCommand(c, command, nodeOk)
  \/ \E bundleOk, spawnOk \in BOOLEAN : SpawnAgent(c, bundleOk, spawnOk)
  \/ TimerFires(c)
  \/ \E code \in {"-2", "0", "1", "null"}, out \in Stdouts, apiError \in BOOLEAN :
       ChildClose(c, code, out, apiError)
  \/ CloseSettles(c)
  \/ ChildError(c)
  \/ ErrorSettles(c)
  \/ AgentReturned(c)
  \/ AgentThrew(c)
  \/ \E writeOk \in BOOLEAN : SimulatorDone(c, writeOk)

\* one command at a time
NextCommand == CommandStep(1)

\* the server handles every request that arrives: commands run concurrently
NextCommands == \E c \in Cmds : CommandStep(c)

----------------------------------------------------------------------------
(* Properties of POST /api/command and of the agent invocation            *)

Responded(c) == cmd[c].pc = "responded"

NotInvoked(c) == cmd[c].inv = NoInvocation

C4_TimeoutRejectsAndCloseCancels ==
  \A c \in Cmds :
    /\ cmd[c].inv.timer = "fired" =>
          /\ cmd[c].inv.killed
          /\ cmd[c].inv.promise = "rejected"
          /\ cmd[c].inv.error = "timeout"
          /\ cmd[c].resp.mode # "REAL"
    /\ cmd[c].inv.killed => cmd[c].inv.timer = "fired"
    /\ (cmd[c].inv.closeH # "none" \/ cmd[c].inv.errorH # "none") =>
          cmd[c].inv.timer \in {"cleared", "fired"}

\* the timer fired, and afterwards the subprocess closed with exit code 0 and
\* an output that would otherwise have resolved the call
C4_Witness ==
  /\ cmd[1].inv.timer = "fired"
  /\ cmd[1].inv.closeH = "done"
  /\ cmd[1].inv.claimed = "success"
  /\ cmd[1].inv.promise = "rejected"

\* C5: once the 'close' listener has run for a call whose timer did not fire,
\* the call is resolved if the close met the success condition (exit code 0,
\* no API-failure signature, non-empty response text) and rejected otherwise.
C5_CloseReportedSuccessIffClean ==
  \A c \in Cmds :
    (cmd[c].inv.closeH \in {"done", "threw"} /\ cmd[c].inv.timer # "fired") =>
      /\ cmd[c].inv.claimed = "success" => cmd[c].inv.promise = "resolved"
      /\ cmd[c].inv.claimed = "failure" => cmd[c].inv.promise = "rejected"

Settled(c) == cmd[c].inv.promise \in {"resolved", "rejected"}

\* a settled promise keeps its state and its error: a later resolve or
\* reject has no effect
SettledStaysSettled ==
  [][\A c \in Cmds :
       (Settled(c) /\ cmd'[c].pc # "idle" /\ cmd'[c].inv.promise # "none") =>
         /\ cmd'[c].inv.promise = cmd[c].inv.promise
         /\ cmd'[c].inv.error = cmd[c].inv.error]_agentVars

\* C17: every agent invocation eventually settles, and settles once,
\* whatever the subprocess does: the promise of an invocation that was
\* started is eventually resolved or rejected, and once it is it never
\* changes.
C17_InvocationSettlesExactlyOnce ==
  /\ \A c \in Cmds : (cmd[c].inv.promise = "pending") ~> Settled(c)
  /\ SettledStaysSettled


PreSpawnFailure(c) == cmd[c].inv.error \in {"node-version", "bundle-missing"}

\* C19: a command spawns at most one subprocess, and none when the agent is
\* disabled or a pre-spawn check failed; there is no retry (the count never
\* exceeds one, whatever the outcome); and a command is never blocked by
\* another: whatever the other command is doing, one that arrived can be
\* taken up and one whose pre-spawn checks are due can spawn.
C19_AtMostOneSpawnAndNoBlocking ==
  \A c \in Cmds :
    /\ cmd[c].inv.spawns <= 1
    /\ ~USE_REAL_AGENT => cmd[c].inv.spawns = 0
    /\ PreSpawnFailure(c) => cmd[c].inv.spawns = 0
    /\ cmd[c].pc = "idle" =>
         ENABLED (\E command \in Commands, nodeOk \in BOOLEAN :
                    PostCommand(c, command, nodeOk))
    /\ cmd[c].inv.child = "preflight" =>
         ENABLED (\E bundleOk, spawnOk \in BOOLEAN : SpawnAgent(c, bundleOk, spawnOk))

\* both commands have their own subprocess running at the same time
C19_Witness ==
  /\ cmd[1].inv.child = "running" /\ cmd[1].inv.spawns = 1
  /\ cmd[2].inv.child = "running" /\ cmd[2].inv.spawns = 1


\* C21: with DEBUG_AGENT set, an invocation that spawned a subprocess has
\* written a log file by the time its promise is settled, whatever the
\* outcome (success, API error, empty output, exit code, spawn error,
\* timeout).
C21_LogWrittenBeforeSettling ==
  \A c \in Cmds :
    (DEBUG_AGENT /\ cmd[c].inv.spawns >= 1 /\ Settled(c)) => cmd[c].inv.logs >= 1

\* the same, for the invocations the timer did not settle
LogWrittenUnlessTimedOut ==
  \A c \in Cmds :
    (DEBUG_AGENT /\ cmd[c].inv.spawns >= 1 /\ Settled(c)
       /\ cmd[c].inv.error # "timeout") => cmd[c].inv.logs >= 1

----------------------------------------------------------------------------
(* smart-simulator.js: buildExperienceProfile and extractItems.  Characters *)
(* outside ASCII (the emoji that open titles and items) are written "*".    *)

VARIABLES
  userCommand,   \* the command generateSmartExperience was called with
  experience     \* the profile buildExperienceProfile returned for it

simulatorVars == <<userCommand, experience>>

Quote == "\""

toLowerCase_Identity(s) == s

toLowerCase(s) == [i \in 1..Len(s) |-> LowerOf(s[i])]

Substring_Whole(s, start, end) == s

\* String.prototype.substring(start, end), start and end counted from 0
Substring(s, start, end) ==
  LET hi == IF end < Len(s) THEN end ELSE Len(s)
  IN  IF start >= hi THEN <<>> ELSE SubSeq(s, start + 1, hi)

\* the length to which the default title cuts the command
TitleEcho == 50

\* the text the default title puts before the echo of the command
DefaultTitlePrefix ==
  <<"*", " ", "P", "r", "o", "j", "e", "c", "t", " ", "B", "r", "i", "e", "f",
    ":", " ">>

\* the prefix `${...}` puts before every shopping item
ItemPrefix == <<"*", " ">>

\* the index of the first c in s at or after i, or 0
IndexFrom(s, c, i) ==
  IF \E k \in i..Len(s) : s[k] = c
  THEN CHOOSE k \in i..Len(s) : s[k] = c /\ \A m \in i..(k - 1) : s[m] # c
  ELSE 0

\* command.match(/"([^"]+)"/g): the matches from position i on, each tried at
\* the leftmost position and the search resumed after the match
RECURSIVE MatchQuoted(_, _)
MatchQuoted(s, i) ==
  IF i > Len(s) THEN <<>>
  ELSE IF s[i] = Quote /\ i + 1 <= Len(s) /\ s[i + 1] # Quote
       THEN LET j == IndexFrom(s, Quote, i + 2)
            IN  IF j = 0 THEN MatchQuoted(s, i + 1)
                ELSE <<SubSeq(s, i, j)>> \o MatchQuoted(s, j + 1)
       ELSE MatchQuoted(s, i + 1)

\* q.replace(/"/g, '')
StripQuotes(q) == SelectSeq(q, LAMBDA c : c # Quote)

NoMatch == <<"null">>

\* the number of whitespace characters \s* can take from position i
RECURSIVE WhitespaceRun(_, _)
WhitespaceRun(s, i) ==
  IF i <= Len(s) /\ s[i] \in Whitespace THEN 1 + WhitespaceRun(s, i + 1) ELSE 0

\* (.+) from position i: the characters up to the line terminator, at least one
DotPlus(s, i) ==
  IF i > Len(s) \/ s[i] = "\n" THEN NoMatch
  ELSE LET nl == IndexFrom(s, "\n", i)
       IN  SubSeq(s, i, IF nl = 0 THEN Len(s) ELSE nl - 1)

\* :\s*(.+) tried at the colon at position i with \s* taking k characters,
\* giving characters back one at a time while (.+) fails
RECURSIVE ColonAt(_, _, _)
ColonAt(s, i, k) ==
  IF DotPlus(s, i + 1 + k) # NoMatch THEN DotPlus(s, i + 1 + k)
  ELSE IF k = 0 THEN NoMatch
  ELSE ColonAt(s, i, k - 1)

\* command.match(/:\s*(.+)/): the capture of the first position that matches
RECURSIVE MatchColon(_, _)
MatchColon(s, i) ==
  IF i > Len(s) THEN NoMatch
  ELSE IF s[i] = ":" /\ ColonAt(s, i, WhitespaceRun(s, i + 1)) # NoMatch
       THEN ColonAt(s, i, WhitespaceRun(s, i + 1))
       ELSE MatchColon(s, i + 1)

extractItems_NoDefaults(command, defaults) ==
  LET quoted == MatchQuoted(command, 1)
      items == MatchColon(command, 1)
  IN  IF Len(quoted) > 0
      THEN [k \in 1..Len(quoted) |-> ItemPrefix \o StripQuotes(quoted[k])]
      ELSE IF items # NoMatch /\ Includes(items, <<",">>)
      THEN [k \in 1..Len(Split(items, ",")) |->
              ItemPrefix \o Trim(Split(items, ",")[k])]
      ELSE <<>>

extractItems_ColonFirst(command, defaults) ==
  LET quoted == MatchQuoted(command, 1)
      items == MatchColon(command, 1)
  IN  IF items # NoMatch /\ Includes(items, <<",">>)
      THEN [k \in 1..Len(Split(items, ",")) |->
              ItemPrefix \o Trim(Split(items, ",")[k])]
      ELSE IF Len(quoted) > 0
      THEN [k \in 1..Len(quoted) |-> ItemPrefix \o StripQuotes(quoted[k])]
      ELSE [k \in 1..Len(defaults) |-> ItemPrefix \o defaults[k]]

extractItems(command, defaults) ==
  LET quoted == MatchQuoted(command, 1)
      items == MatchColon(command, 1)
  IN  IF Len(quoted) > 0
      THEN [k \in 1..Len(quoted) |-> ItemPrefix \o StripQuotes(quoted[k])]
      ELSE IF items # NoMatch /\ Includes(items, <<",">>)
      THEN [k \in 1..Len(Split(items, ",")) |->
              ItemPrefix \o Trim(Split(items, ",")[k])]
      ELSE [k \in 1..Len(defaults) |-> ItemPrefix \o defaults[k]]

DefaultGroceries ==
  <<<<"c", "a", "r", "r", "o", "t", "s">>,
    <<"a", "p", "p", "l", "e", "s">>,
    <<"p", "o", "t", "a", "t", "o", "e", "s">>,
    <<"m", "i", "l", "k">>,
    <<"b", "r", "e", "a", "d">>,
    <<"e", "g", "g", "s">>>>

buildExperienceProfile(command) ==
  LET lower == toLowerCase(command) IN
  IF \/ Includes(lower, <<"a", "s", "c", "i", "i">>)
          \/ Includes(lower, <<"a", "r", "t">>)
  THEN [title |-> <<"* ASCII Art Showcase">>,
        items |-> <<>>, customContent |-> TRUE]
  ELSE IF \/ Includes(lower, <<"s", "h", "o", "p">>)
          \/ Includes(lower, <<"g", "r", "o", "c", "e", "r", "i", "e", "s">>)
          \/ Includes(lower, <<"g", "r", "o", "c", "e", "r", "y">>)
          \/ Includes(lower, <<"b", "u", "y">>)
          \/ Includes(lower, <<"c", "a", "r", "r", "o", "t", "s">>)
          \/ Includes(lower, <<"a", "p", "p", "l", "e", "s">>)
  THEN [title |-> <<"* Shopping Companion">>,
        items |-> extractItems(command, DefaultGroceries),
        customContent |-> FALSE]
  ELSE IF \/ Includes(lower, <<"b", "l", "o", "g">>)
          \/ Includes(lower, <<"w", "r", "i", "t", "e">>)
          \/ Includes(lower, <<"a", "r", "t", "i", "c", "l", "e">>)
  THEN [title |-> <<"* Blog Writing Toolkit">>,
        items |->
          <<"* Research topic and gather sources",
            "* Define target audience and key message",
            "* Write compelling headline and introduction",
            "* Draft main content sections",
            "* Add images, code examples, or diagrams",
            "* Proofread and edit for clarity",
            "* Publish and share on social media">>,
        customContent |-> FALSE]
  ELSE IF \/ Includes(lower, <<"c", "o", "d", "e">>)
          \/ Includes(lower, <<"a", "p", "p">>)
          \/ Includes(lower, <<"b", "u", "i", "l", "d">>)
          \/ Includes(lower, <<"i", "m", "p", "l", "e", "m", "e", "n", "t">>)
          \/ Includes(lower, <<"d", "e", "v", "e", "l", "o", "p">>)
  THEN [title |-> <<"* Development Sprint Plan">>,
        items |->
          <<"* Design architecture and component structure",
            "* Create UI mockups or wireframes",
            "* Set up development environment",
            "* Implement core functionality",
            "* Write unit and integration tests",
            "* Debug and fix issues",
            "* Document code and API",
            "* Deploy to production">>,
        customContent |-> FALSE]
  ELSE IF \/ Includes(lower, <<"t", "r", "a", "v", "e", "l">>)
          \/ Includes(lower, <<"v", "a", "c", "a", "t", "i", "o", "n">>)
          \/ Includes(lower, <<"t", "r", "i", "p">>)
          \/ Includes(lower, <<"h", "o", "l", "i", "d", "a", "y">>)
  THEN [title |-> <<"* Travel Planner">>,
        items |->
          <<"* Choose destination and dates",
            "* Book flights and accommodation",
            "* Create daily itinerary",
            "* Arrange travel insurance",
            "* Pack essentials (clothes, documents, chargers)",
            "* Exchange currency or notify bank",
            "* Charge camera and devices",
            "* Arrange pet/plant care if needed">>,
        customContent |-> FALSE]
  ELSE IF \/ Includes(lower, <<"t", "w", "i", "t", "t", "e", "r">>)
          \/ Includes(lower, <<"t", "w", "e", "e", "t">>)
          \/ Includes(lower, <<"p", "o", "s", "t">>)
          \/ Includes(lower, <<"s", "o", "c", "i", "a", "l", " ", "m", "e", "d", "i", "a">>)
  THEN [title |-> <<"* Social Media Launch Checklist">>,
        items |->
          <<"* Draft engaging tweet copy (keep it under 280 chars)",
            "* Create eye-catching visual or screenshot",
            "* Add relevant links or call-to-action",
            "* Include 2-3 relevant hashtags",
            "* Schedule for optimal posting time",
            "* Tag relevant accounts or collaborators",
            "* Monitor engagement and reply to comments",
            "* Retweet and amplify responses">>,
        customContent |-> FALSE]
  ELSE [title |-> DefaultTitlePrefix \o Substring(command, 0, TitleEcho)
                  \o (IF Len(command) > TitleEcho THEN <<".", ".", ".">> ELSE <<>>),
        items |->
          <<"* Define clear goals and success criteria",
            "* Break down into smaller actionable steps",
            "* Set realistic deadlines for each step",
            "* Start with the highest priority item",
            "* Complete and verify each step",
            "* Document progress and learnings",
            "* Celebrate completion!">>,
        customContent |-> FALSE]

NoExperience == [title |-> <<>>, items |-> <<>>, customContent |-> FALSE]

InitSimulator ==
  /\ userCommand = <<>>
  /\ experience = NoExperience

\* generateSmartExperience(userCommand): const experience =
\* buildExperienceProfile(userCommand)
GenerateSmartExperience ==
  /\ experience = NoExperience
  /\ experience' = buildExperienceProfile(userCommand)
  /\ UNCHANGED userCommand

NextSimulator == GenerateSmartExperience

\* the strings made of at most n of the given words
RECURSIVE Concats(_, _)
Concats(words, n) ==
  IF n = 0 THEN {<<>>}
  ELSE Concats(words, n - 1)
         \cup {a \o w : a \in Concats(words, n - 1), w \in words}

MaxWords == 3

ClassifyWords ==
  {<<"S", "h", "o", "p">>, <<"b", "u", "y">>, <<"B", "L", "O", "G">>,
   <<"w", "r", "i", "t", "e">>, <<"a", "r", "t">>, <<"A", "S", "C", "I", "I">>,
   <<"C", "o", "d", "e">>, <<"t", "r", "i", "p">>, <<"T", "w", "e", "e", "t">>,
   <<"s", "o", "c", "i", "a", "l">>, <<"m", "e", "d", "i", "a">>,
   <<"c">>, <<"x">>, <<" ">>}

ClassifyCommands == Concats(ClassifyWords, MaxWords)

MaxPieces == 4

ExtractPieces ==
  {<<Quote, "a", Quote>>, <<Quote, "b", Quote>>, <<Quote, Quote>>, <<Quote>>,
   <<":">>, <<",">>, <<" ">>, <<"\n">>, <<"a">>, <<"b">>}

\* shopping commands: a shopping keyword followed by the pieces
ExtractCommands == {<<"b", "u", "y">> \o t : t \in Concats(ExtractPieces, MaxPieces)}

----------------------------------------------------------------------------
(* Properties of the classifier                                            *)

KeywordGroups ==
  << {<<"a", "s", "c", "i", "i">>, <<"a", "r", "t">>},
     {<<"s", "h", "o", "p">>, <<"g", "r", "o", "c", "e", "r", "i", "e", "s">>,
      <<"g", "r", "o", "c", "e", "r", "y">>, <<"b", "u", "y">>,
      <<"c", "a", "r", "r", "o", "t", "s">>, <<"a", "p", "p", "l", "e", "s">>},
     {<<"b", "l", "o", "g">>, <<"w", "r", "i", "t", "e">>,
      <<"a", "r", "t", "i", "c", "l", "e">>},
     {<<"c", "o", "d", "e">>, <<"a", "p", "p">>, <<"b", "u", "i", "l", "d">>,
      <<"i", "m", "p", "l", "e", "m", "e", "n", "t">>,
      <<"d", "e", "v", "e", "l", "o", "p">>},
     {<<"t", "r", "a", "v", "e", "l">>, <<"v", "a", "c", "a", "t", "i", "o", "n">>,
      <<"t", "r", "i", "p">>, <<"h", "o", "l", "i", "d", "a", "y">>},
     {<<"t", "w", "i", "t", "t", "e", "r">>, <<"t", "w", "e", "e", "t">>,
      <<"p", "o", "s", "t">>,
      <<"s", "o", "c", "i", "a", "l", " ", "m", "e", "d", "i", "a">>} >>

GroupTitles ==
  << <<"* ASCII Art Showcase">>, <<"* Shopping Companion">>,
     <<"* Blog Writing Toolkit">>, <<"* Development Sprint Plan">>,
     <<"* Travel Planner">>, <<"* Social Media Launch Checklist">> >>

\* kw occurs in s when the case of letters is ignored
ContainsIgnoringCase(s, kw) ==
  \E i \in 1..(Len(s) - Len(kw) + 1) :
    \A j \in 1..Len(kw) : LowerOf(s[i + j - 1]) = LowerOf(kw[j])

GroupMatches(s, g) == \E kw \in KeywordGroups[g] : ContainsIgnoringCase(s, kw)

Classified == experience # NoExperience

\* C9: the profile returned for a command is that of the first keyword group,
\* in the order ascii/art, shopping, blog, code, travel, social, one of whose
\* keywords occurs in the command ignoring case, and the generic default
\* profile when no group has one.
C9_FirstMatchingGroupWins ==
  Classified =>
    /\ DOMAIN experience = {"title", "items", "customContent"}
    /\ IF \E g \in DOMAIN KeywordGroups : GroupMatches(userCommand, g)
       THEN LET first == CHOOSE g \in DOMAIN KeywordGroups :
                           /\ GroupMatches(userCommand, g)
                           /\ \A h \in 1..(g - 1) : ~GroupMatches(userCommand, h)
            IN  experience.title = GroupTitles[first]
       ELSE /\ experience.title \notin {GroupTitles[g] : g \in DOMAIN GroupTitles}
            /\ StartsWith(experience.title, DefaultTitlePrefix)
            /\ Len(experience.items) = 7

\* a command with a shopping keyword and a blog keyword, in either case, was
\* given the shopping profile
C9_Witness ==
  /\ Classified
  /\ ~GroupMatches(userCommand, 1)
  /\ GroupMatches(userCommand, 2)
  /\ GroupMatches(userCommand, 3)
  /\ userCommand # toLowerCase(userCommand)
  /\ experience.title = GroupTitles[2]

InShoppingBranch == Classified /\ experience.title = GroupTitles[2]

Prefixed(texts) == [k \in 1..Len(texts) |-> ItemPrefix \o texts[k]]

\* the positions of the double quotes of s, in order
QuotePositions(s) ==
  LET P == {i \in 1..Len(s) : s[i] = Quote}
      RECURSIVE Ordered(_)
      Ordered(S) == IF S = {} THEN <<>>
                    ELSE LET m == CHOOSE x \in S : \A y \in S : x <= y
                         IN  <<m>> \o Ordered(S \ {m})
  IN  Ordered(P)

\* the texts between the first and second quote, the third and fourth, ...
PairedTexts(s) ==
  LET q == QuotePositions(s)
  IN  [k \in 1..(Len(q) \div 2) |-> SubSeq(s, q[2 * k - 1] + 1, q[2 * k] - 1)]

\* everything after the first colon
AfterColon(s) ==
  IF IndexOfChar(s, ":") = 0 THEN <<>>
  ELSE SubSeq(s, IndexOfChar(s, ":") + 1, Len(s))

TrimmedPieces(text) == [k \in 1..Len(Split(text, ",")) |-> Trim(Split(text, ",")[k])]

\* C10 (as stated): in the shopping branch there is one item per
\* double-quoted substring when the command has any; otherwise one item per
\* comma-separated piece, trimmed, of what follows a colon when that holds a
\* comma; otherwise the default grocery list.
C10_QuotedThenColonThenDefaults ==
  InShoppingBranch =>
    experience.items =
      IF PairedTexts(userCommand) # <<>>
      THEN Prefixed(PairedTexts(userCommand))
      ELSE IF Includes(AfterColon(userCommand), <<",">>)
      THEN Prefixed(TrimmedPieces(AfterColon(userCommand)))
      ELSE Prefixed(DefaultGroceries)

\* a quote, one or more characters that are not quotes, a quote
IsQuotedAt(s, i, j) ==
  /\ i + 1 < j
  /\ s[i] = Quote /\ s[j] = Quote
  /\ \A k \in (i + 1)..(j - 1) : s[k] # Quote

\* the non-empty quoted texts of s from position i on, leftmost first, none
\* sharing a quote with the one before
RECURSIVE QuotedTexts(_, _)
QuotedTexts(s, i) ==
  IF \E a, b \in i..Len(s) : IsQuotedAt(s, a, b)
  THEN LET a == CHOOSE a \in i..Len(s) :
                  /\ \E b \in i..Len(s) : IsQuotedAt(s, a, b)
                  /\ \A c \in i..(a - 1) : \A b \in i..Len(s) : ~IsQuotedAt(s, c, b)
           b == CHOOSE b \in i..Len(s) : IsQuotedAt(s, a, b)
       IN  <<SubSeq(s, a + 1, b - 1)>> \o QuotedTexts(s, b + 1)
  ELSE <<>>

\* what follows the first colon and the whitespace after it, up to the end
\* of that line
RestOfLineAfterColon(s) ==
  LET rest == TrimStart(AfterColon(s))
      nl == IndexOfChar(rest, "\n")
  IN  IF nl = 0 THEN rest ELSE SubSeq(rest, 1, nl - 1)

\* C10 (amended): in the shopping branch there is one item per non-empty
\* double-quoted substring, in order and unquoted, when the command has any;
\* otherwise one item per comma-separated piece, trimmed, of the rest of the
\* line after the first colon when that holds a comma; otherwise the default
\* grocery list.
C10_NonEmptyQuotedThenColonLineThenDefaults ==
  InShoppingBranch =>
    experience.items =
      IF QuotedTexts(userCommand, 1) # <<>>
      THEN Prefixed(QuotedTexts(userCommand, 1))
      ELSE IF Includes(RestOfLineAfterColon(userCommand), <<",">>)
      THEN Prefixed(TrimmedPieces(RestOfLineAfterColon(userCommand)))
      ELSE Prefixed(DefaultGroceries)

\* a command with two quoted texts, and a colon and comma as well, gave the
\* two quoted texts as its items, in order
C10_Witness ==
  /\ InShoppingBranch
  /\ Len(MatchQuoted(userCommand, 1)) = 2
  /\ Includes(userCommand, <<":">>)
  /\ Includes(userCommand, <<",">>)
  /\ experience.items = <<ItemPrefix \o <<"a">>, ItemPrefix \o <<"b">>>>

\* commands around the length at which the title cuts: a word followed by
\* a run of one filler character
MaxFill == 53

TitleWords == {<<>>, <<"q">>, <<"t", "r", "i", "p">>}

TitleFillers == {"x", " ", "Z"}

TitleCommands ==
  {w \o [i \in 1..n |-> f] : w \in TitleWords, f \in TitleFillers, n \in 0..MaxFill}

NoGroupMatches(s) == \A g \in DOMAIN KeywordGroups : ~GroupMatches(s, g)

GenericChecklist ==
  <<"* Define clear goals and success criteria",
    "* Break down into smaller actionable steps",
    "* Set realistic deadlines for each step",
    "* Start with the highest priority item",
    "* Complete and verify each step",
    "* Document progress and learnings",
    "* Celebrate completion!">>

\* C11 (as stated): for a command that matches no keyword group the title of
\* the profile is at most 53 characters long and the items are the fixed
\* 7-step checklist.
C11_DefaultTitleAtMost53 ==
  (Classified /\ NoGroupMatches(userCommand)) =>
    /\ Len(experience.title) <= 53
    /\ experience.items = GenericChecklist

\* the echo of the command: its first 50 characters, and three dots when it
\* is longer
CommandEcho(s) ==
  IF Len(s) > 50 THEN [i \in 1..53 |-> IF i <= 50 THEN s[i] ELSE "."]
  ELSE s

\* C11 (amended): for a command that matches no keyword group the title is
\* the fixed prefix followed by an echo of the command that is at most 53
\* characters long (the first 50 characters of the command, and an ellipsis
\* marker when the command is longer), and the items are the fixed 7-step
\* checklist.
C11_DefaultTitleEchoAtMost53 ==
  (Classified /\ NoGroupMatches(userCommand)) =>
    /\ experience.title = DefaultTitlePrefix \o CommandEcho(userCommand)
    /\ Len(experience.title) - Len(DefaultTitlePrefix) <= 53
    /\ experience.items = GenericChecklist
    /\ Len(experience.items) = 7

\* a command longer than 50 characters was given the default profile
C11_Witness ==
  /\ Classified
  /\ NoGroupMatches(userCommand)
  /\ Len(userCommand) > 50
  /\ Len(experience.title) = Len(DefaultTitlePrefix) + 53

\* C12: every profile the classifier returns has a non-empty items list or a
\* customContent block, never both and never neither.
C12_ItemsXorCustomContent ==
  Classified =>
    /\ experience.customContent \in BOOLEAN
    /\ (Len(experience.items) > 0) # experience.customContent

\* a command with an art keyword and a shopping keyword was given the custom
\* block and no items
C12_Witness ==
  /\ Classified
  /\ GroupMatches(userCommand, 1)
  /\ GroupMatches(userCommand, 2)
  /\ experience.customContent
  /\ experience.items = <<>>

----------------------------------------------------------------------------
(* MarkdownViewer.tsx: escapeHtml, renderInlineMarkdown, renderMarkdown    *)

VARIABLES
  markdown,   \* the argument of renderMarkdown
  lines,      \* markdown.split(/\r?\n/)
  lineNo,     \* the number of lines the loop has read
  html,       \* the segments pushed so far
  inList,
  inCode,
  rendered,   \* the string returned
  mdPc        \* "start", "loop", "done"

markdownVars == <<markdown, lines, lineNo, html, inList, inCode, rendered, mdPc>>

\* the character U+0060, which a string of this notation cannot hold
Backtick == "U+0060"

\* escapeHtml, on one character
EscapeChar(c) ==
  CASE c = "&" -> <<"&", "a", "m", "p", ";">>
    [] c = "<" -> <<"&", "l", "t", ";">>
    [] c = ">" -> <<"&", "g", "t", ";">>
    [] c = Quote -> <<"&", "q", "u", "o", "t", ";">>
    [] c = "'" -> <<"&", "#", "3", "9", ";">>
    [] OTHER -> <<c>>

RECURSIVE escapeHtml(_)
escapeHtml(text) ==
  IF text = <<>> THEN <<>>
  ELSE EscapeChar(Head(text)) \o escapeHtml(Tail(text))

\* s has the text d at position i
HasAt(s, d, i) == i + Len(d) - 1 <= Len(s) /\ SubSeq(s, i, i + Len(d) - 1) = d

\* escaped.replace(/D([^c]+)D/g, before + '$1' + after), where the delimiter
\* D is one or two copies of the character c: from position i on
RECURSIVE ReplaceDelimited(_, _, _, _, _)
ReplaceDelimited(s, d, before, after, i) ==
  IF i > Len(s) THEN <<>>
  ELSE LET from == i + Len(d)
           j == IndexFrom(s, d[1], from)
       IN  IF HasAt(s, d, i) /\ j > from /\ HasAt(s, d, j)
           THEN before \o SubSeq(s, from, j - 1) \o after
                  \o ReplaceDelimited(s, d, before, after, j + Len(d))
           ELSE <<s[i]>> \o ReplaceDelimited(s, d, before, after, i + 1)

\* escaped.replace(/\[([^\]]+)\]\(([^)]+)\)/g, '<a href="$2" ...>$1</a>')
RECURSIVE ReplaceLinks(_, _)
ReplaceLinks(s, i) ==
  IF i > Len(s) THEN <<>>
  ELSE LET j == IndexFrom(s, "]", i + 1)
           k == IF j = 0 THEN 0 ELSE IndexFrom(s, ")", j + 2)
       IN  IF s[i] = "[" /\ j > i + 1 /\ HasAt(s, <<"(">>, j + 1) /\ k > j + 2
           THEN <<"<", "a", " ", "h", "r", "e", "f", "=", "\"">> \o SubSeq(s, j + 2, k - 1)
                  \o <<"\"", " ", "t", "a", "r", "g", "e", "t", "=", "\"", "_", "b", "l", "a", "n", "k", "\"", " ", "r", "e", "l", "=", "\"", "n", "o", "r", "e", "f", "e", "r", "r", "e", "r", " ", "n", "o", "o", "p", "e", "n", "e", "r", "\"", ">">>
                  \o SubSeq(s, i + 1, j - 1) \o <<"<", "/", "a", ">">>
                  \o ReplaceLinks(s, k + 1)
           ELSE <<s[i]>> \o ReplaceLinks(s, i + 1)

renderInlineMarkdown(text) ==
  LET e0 == escapeHtml(text)
      e1 == ReplaceDelimited(e0, <<"*", "*">>, <<"<", "s", "t", "r", "o", "n", "g", ">">>, <<"<", "/", "s", "t", "r", "o", "n", "g", ">">>, 1)
      e2 == ReplaceDelimited(e1, <<"_", "_">>, <<"<", "s", "t", "r", "o", "n", "g", ">">>, <<"<", "/", "s", "t", "r", "o", "n", "g", ">">>, 1)
      e3 == ReplaceDelimited(e2, <<"*">>, <<"<", "e", "m", ">">>, <<"<", "/", "e", "m", ">">>, 1)
      e4 == ReplaceDelimited(e3, <<"_">>, <<"<", "e", "m", ">">>, <<"<", "/", "e", "m", ">">>, 1)
      e5 == ReplaceDelimited(e4, <<Backtick>>, <<"<", "c", "o", "d", "e", ">">>, <<"<", "/", "c", "o", "d", "e", ">">>, 1)
  IN  ReplaceLinks(e5, 1)

\* markdown.split(/\r?\n/): a carriage return before a line feed belongs to
\* the separator
SplitLines(s) ==
  LET pieces == Split(s, "\n")
  IN  [k \in 1..Len(pieces) |->
         IF k < Len(pieces) /\ pieces[k] # <<>> /\ pieces[k][Len(pieces[k])] = "\r"
         THEN SubSeq(pieces[k], 1, Len(pieces[k]) - 1)
         ELSE pieces[k]]

UlOpen == <<"<", "u", "l", ">">>
UlClose == <<"<", "/", "u", "l", ">">>
PreOpen == <<"<", "p", "r", "e", " ", "c", "l", "a", "s", "s", "=", "\"", "m", "a", "r", "k", "d", "o", "w", "n", "-", "b", "l", "o", "c", "k", "_", "_", "c", "o", "d", "e", "\"", ">">>
PreClose == <<"<", "/", "p", "r", "e", ">">>

Fence == <<Backtick, Backtick, Backtick>>

\* the number of '#' characters line starts with
RECURSIVE LeadingHashes(_)
LeadingHashes(line) ==
  IF line # <<>> /\ Head(line) = "#" THEN 1 + LeadingHashes(Tail(line)) ELSE 0

\* /^#+\s+/.test(line)
IsHeading_AnyLevel(line) ==
  /\ LeadingHashes(line) >= 1
  /\ Len(line) > LeadingHashes(line)
  /\ line[LeadingHashes(line) + 1] \in Whitespace

\* /^#{1,6}\s+/.test(line)
IsHeading(line) ==
  /\ LeadingHashes(line) \in 1..6
  /\ Len(line) > LeadingHashes(line)
  /\ line[LeadingHashes(line) + 1] \in Whitespace

IsBullet_DashOnly(line) ==
  /\ Len(line) >= 2
  /\ line[1] = "-"
  /\ line[2] \in Whitespace

\* /^[-*]\s+/.test(line)
IsBullet(line) ==
  /\ Len(line) >= 2
  /\ line[1] \in {"-", "*"}
  /\ line[2] \in Whitespace

\* line.replace(/^#{1,6}\s+/, '') and line.replace(/^[-*]\s+/, ''): the line
\* without its first n characters and the whitespace after them
StripMarker(line, n) == TrimStart(SubSeq(line, n + 1, Len(line)))

\* closeList(), as the segments it pushes
closeList_Never(open) == <<>>

closeList(open) == IF open THEN <<UlClose>> ELSE <<>>

\* `<hN>...</hN>`
HeadingSegment(line) ==
  LET level == IF LeadingHashes(line) < 6 THEN LeadingHashes(line) ELSE 6
      digit == <<"1", "2", "3", "4", "5", "6">>[level]
  IN  <<"<", "h", digit, ">">>
        \o renderInlineMarkdown(StripMarker(line, LeadingHashes(line)))
        \o <<"<", "/", "h", digit, ">">>

InitMarkdown ==
  /\ markdown = <<>>
  /\ lines = <<>>
  /\ lineNo = 0
  /\ html = <<>>
  /\ inList = FALSE
  /\ inCode = FALSE
  /\ rendered = <<>>
  /\ mdPc = "start"

\* renderMarkdown, up to the loop
RenderStart ==
  /\ mdPc = "start"
  /\ lines' = SplitLines(markdown)
  /\ mdPc' = "loop"
  /\ UNCHANGED <<markdown, lineNo, html, inList, inCode, rendered>>

\* one iteration of `for (const rawLine of lines)`
RenderLine ==
  /\ mdPc = "loop"
  /\ lineNo < Len(lines)
  /\ LET rawLine == lines[lineNo + 1]
         line == TrimEnd(rawLine)
     IN  /\ lineNo' = lineNo + 1
         /\ IF StartsWith(line, Fence)
            THEN IF inCode
                 THEN /\ html' = html \o <<PreClose>>
                      /\ inCode' = FALSE
                      /\ UNCHANGED inList
                 ELSE /\ html' = html \o closeList(inList) \o <<PreOpen>>
                      /\ inList' = FALSE
                      /\ inCode' = TRUE
            ELSE IF inCode
            THEN /\ html' = Append(html, escapeHtml(rawLine))
                 /\ UNCHANGED <<inList, inCode>>
            ELSE IF line = <<>>
            THEN /\ html' = html \o closeList(inList) \o <<<<>>>>
                 /\ inList' = FALSE
                 /\ UNCHANGED inCode
            ELSE IF IsHeading(line)
            THEN /\ html' = html \o closeList(inList) \o <<HeadingSegment(line)>>
                 /\ inList' = FALSE
                 /\ UNCHANGED inCode
            ELSE IF IsBullet(line)
            THEN /\ html' = html \o (IF inList THEN <<>> ELSE <<UlOpen>>)
                              \o << <<"<", "l", "i", ">">> \o renderInlineMarkdown(StripMarker(line, 1))
                                    \o <<"<", "/", "l", "i", ">">> >>
                 /\ inList' = TRUE
                 /\ UNCHANGED inCode
            ELSE /\ html' = html \o closeList(inList)
                              \o << <<"<", "p", ">">> \o renderInlineMarkdown(line) \o <<"<", "/", "p", ">">> >>
                 /\ inList' = FALSE
                 /\ UNCHANGED inCode
  /\ UNCHANGED <<markdown, lines, rendered, mdPc>>

\* html.filter((segment, index, arr) => !(segment === '' && arr[index - 1] === ''))
FilterBlanks(segments) ==
  LET keep == {i \in 1..Len(segments) :
                 ~(segments[i] = <<>> /\ i > 1 /\ segments[i - 1] = <<>>)}
      RECURSIVE Kept(_)
      Kept(i) == IF i > Len(segments) THEN <<>>
                 ELSE (IF i \in keep THEN <<segments[i]>> ELSE <<>>) \o Kept(i + 1)
  IN  Kept(1)

\* Array.prototype.join('\n')
RECURSIVE JoinLines(_)
JoinLines(segments) ==
  IF segments = <<>> THEN <<>>
  ELSE IF Len(segments) = 1 THEN segments[1]
  ELSE segments[1] \o <<"\n">> \o JoinLines(Tail(segments))

\* renderMarkdown, after the loop: the open list and the open code block are
\* closed, repeated blank segments dropped and the segments joined
RenderFinish ==
  /\ mdPc = "loop"
  /\ lineNo = Len(lines)
  /\ LET closed == html \o closeList(inList) \o (IF inCode THEN <<PreClose>> ELSE <<>>)
         joined == JoinLines(FilterBlanks(closed))
     IN  /\ html' = closed
         /\ rendered' = IF joined = <<>> THEN <<"<", "p", ">", "<", "/", "p", ">">> ELSE joined
  /\ inList' = FALSE
  /\ mdPc' = "done"
  /\ UNCHANGED <<markdown, lines, lineNo, inCode>>

NextMarkdown == RenderStart \/ RenderLine \/ RenderFinish

MaxLines == 4

MarkdownLines ==
  {<<"-", " ", "a">>, <<"*", " ", "b">>, <<"-", " ">>, <<"#", " ", "T">>, <<Backtick, Backtick, Backtick>>, <<>>, <<" ", " ">>, <<"p">>}

\* the documents of at most MaxLines lines
RECURSIVE Documents(_)
Documents(n) ==
  IF n = 1 THEN MarkdownLines
  ELSE Documents(n - 1)
         \cup {d \o <<"\n">> \o l : d \in Documents(n - 1), l \in MarkdownLines}

RECURSIVE Hashes(_)
Hashes(n) == IF n = 0 THEN <<>> ELSE <<"#">> \o Hashes(n - 1)

MaxHashes == 7

\* lines that start with '#': one to MaxHashes of them before a title, a
\* '#' with only a space after it, one with no space, one whose title has
\* inline markup; a fence and a paragraph
HeadingLines ==
  {Hashes(n) \o <<" ", "T">> : n \in 1..MaxHashes}
    \cup {<<"#", " ">>, <<"#", "T">>, <<"#", " ", " ", "*", "b", "*">>,
          <<Backtick, Backtick, Backtick>>, <<"p">>}

MaxHeadingLines == 3

RECURSIVE HeadingDocuments(_)
HeadingDocuments(n) ==
  IF n = 1 THEN HeadingLines
  ELSE HeadingDocuments(n - 1)
         \cup {d \o <<"\n">> \o l : d \in HeadingDocuments(n - 1), l \in HeadingLines}

\* the texts given to the inline formatter: up to MaxTokens of these pieces
InlineTokens ==
  {<<"a">>, <<"*">>, <<"*", "*">>, <<"_">>, <<Backtick>>, <<"[", "a", "]", "(">>,
   <<")">>, <<"<">>}

MaxTokens == 5

RECURSIVE InlineTexts(_)
InlineTexts(n) ==
  IF n = 0 THEN {<<>>}
  ELSE InlineTexts(n - 1)
         \cup {t \o k : t \in InlineTexts(n - 1) \ {<<>>}, k \in InlineTokens}
         \cup InlineTokens

----------------------------------------------------------------------------
(* Properties of the Markdown renderer                                     *)

CountOf(segments, tag) == Cardinality({i \in 1..Len(segments) : segments[i] = tag})

\* reading the segments in order: whether a list and a code block are open
\* after them, and whether every tag so far opened or closed what it could
RECURSIVE Blocks(_, _)
Blocks(segments, n) ==
  IF n = 0 THEN [ul |-> FALSE, pre |-> FALSE, ok |-> TRUE]
  ELSE LET b == Blocks(segments, n - 1)
           t == segments[n]
       IN  IF t = UlOpen THEN [b EXCEPT !.ul = TRUE, !.ok = b.ok /\ ~b.ul /\ ~b.pre]
           ELSE IF t = UlClose THEN [b EXCEPT !.ul = FALSE, !.ok = b.ok /\ b.ul]
           ELSE IF t = PreOpen THEN [b EXCEPT !.pre = TRUE, !.ok = b.ok /\ ~b.pre /\ ~b.ul]
           ELSE IF t = PreClose THEN [b EXCEPT !.pre = FALSE, !.ok = b.ok /\ b.pre]
           ELSE b

RenderedSegments == Split(rendered, "\n")

\* C13: while rendering, a list and a code block are never open together and
\* the tags pushed so far agree with the two flags; the string returned has
\* one </ul> for each <ul> and one </pre> for each <pre>, each closed before
\* the next block opens and none left open.
C13_BlocksExclusiveAndClosed ==
  /\ ~(inList /\ inCode)
  /\ mdPc = "loop" =>
       /\ Blocks(html, Len(html)).ok
       /\ Blocks(html, Len(html)).ul = inList
       /\ Blocks(html, Len(html)).pre = inCode
  /\ mdPc = "done" =>
       LET b == Blocks(RenderedSegments, Len(RenderedSegments))
       IN  /\ b.ok /\ ~b.ul /\ ~b.pre
           /\ CountOf(RenderedSegments, UlOpen) = CountOf(RenderedSegments, UlClose)
           /\ CountOf(RenderedSegments, PreOpen) = CountOf(RenderedSegments, PreClose)

\* a document with a list, closed by the fence after it, and a code block
\* still open at the end of the input has been rendered
C13_Witness ==
  /\ mdPc = "done"
  /\ inCode
  /\ CountOf(RenderedSegments, UlClose) = 1
  /\ CountOf(RenderedSegments, PreClose) = 1
  /\ RenderedSegments[Len(RenderedSegments)] = PreClose

\* a source line that starts with '-' or '*' followed by whitespace
StartsAsBullet(raw) ==
  /\ Len(raw) >= 2
  /\ raw[1] \in {"-", "*"}
  /\ raw[2] \in Whitespace

\* the same of the line without its trailing whitespace: the marker and the
\* whitespace are followed by some text
IsBulletWithText(raw) == StartsAsBullet(TrimEnd(raw))

IsFenceLine(raw) == StartsWith(TrimEnd(raw), Fence)

LiSegment(raw) ==
  <<"<", "l", "i", ">">> \o renderInlineMarkdown(StripMarker(TrimEnd(raw), 1))
    \o <<"<", "/", "l", "i", ">">>

\* the maximal runs of consecutive bullet lines outside code blocks, each as
\* the <li> segments of its lines; bullets(raw) says which lines are bullets.
\* acc is the run being read, code whether a code block is open.
RECURSIVE BulletRuns(_, _, _, _, _)
BulletRuns(src, n, acc, code, withText) ==
  LET flush == IF acc = <<>> THEN <<>> ELSE <<acc>>
  IN  IF n > Len(src) THEN flush
      ELSE LET raw == src[n]
               bullet == IF withText THEN IsBulletWithText(raw) ELSE StartsAsBullet(raw)
           IN  IF IsFenceLine(raw)
               THEN flush \o BulletRuns(src, n + 1, <<>>, ~code, withText)
               ELSE IF code THEN BulletRuns(src, n + 1, <<>>, code, withText)
               ELSE IF bullet
               THEN BulletRuns(src, n + 1, Append(acc, LiSegment(raw)), code, withText)
               ELSE flush \o BulletRuns(src, n + 1, <<>>, code, withText)

IsLi(segment) == StartsWith(segment, <<"<", "l", "i", ">">>)

\* the lists of the output: for each <ul> the <li> segments that follow it
\* up to the next segment that is not one
RECURSIVE ListsOf(_, _)
ListsOf(segments, n) ==
  IF n > Len(segments) THEN <<>>
  ELSE IF segments[n] = UlOpen
       THEN LET stop == CHOOSE k \in (n + 1)..(Len(segments) + 1) :
                          /\ \A m \in (n + 1)..(k - 1) : IsLi(segments[m])
                          /\ k = Len(segments) + 1 \/ ~IsLi(segments[k])
            IN  <<SubSeq(segments, n + 1, stop - 1)>> \o ListsOf(segments, stop)
       ELSE ListsOf(segments, n + 1)

\* every <li> stands in a list, and every list is closed right after its
\* last <li>
ListsTight(segments) ==
  \A n \in 1..Len(segments) :
    /\ IsLi(segments[n]) => n > 1 /\ (segments[n - 1] = UlOpen \/ IsLi(segments[n - 1]))
    /\ (IsLi(segments[n]) \/ segments[n] = UlOpen) =>
          /\ n < Len(segments)
          /\ IsLi(segments[n + 1]) \/ (IsLi(segments[n]) /\ segments[n + 1] = UlClose)

\* C14 (as stated): the lists of the output are the maximal runs of
\* consecutive lines that start with '-' or '*' followed by whitespace and
\* stand outside code blocks: one <ul> per run, holding one <li> per line of
\* the run in source order and closed right after the last of them.
C14_OneListPerBulletRun ==
  mdPc = "done" =>
    /\ ListsOf(RenderedSegments, 1) = BulletRuns(SplitLines(markdown), 1, <<>>, FALSE, FALSE)
    /\ ListsTight(RenderedSegments)

\* C14 (amended): the same, a bullet line being a line that still starts
\* with '-' or '*' followed by whitespace after its trailing whitespace has
\* been removed, that is, whose marker is followed by some text.
C14_OneListPerRunOfBulletsWithText ==
  mdPc = "done" =>
    /\ ListsOf(RenderedSegments, 1) = BulletRuns(SplitLines(markdown), 1, <<>>, FALSE, TRUE)
    /\ ListsTight(RenderedSegments)

\* "# T", a blank line, "- a", "* b" gave one <h1> followed by one <ul> of
\* two <li>, in source order
C14_Witness ==
  /\ mdPc = "done"
  /\ markdown = <<"#", " ", "T", "\n", "\n", "-", " ", "a", "\n", "*", " ", "b">>
  /\ RenderedSegments =
       << <<"<", "h", "1", ">", "T", "<", "/", "h", "1", ">">>,
          <<>>,
          UlOpen,
          <<"<", "l", "i", ">", "a", "<", "/", "l", "i", ">">>,
          <<"<", "l", "i", ">", "b", "<", "/", "l", "i", ">">>,
          UlClose >>

\* the code blocks of the source: for each opening fence the lines up to
\* its closing fence (or the end of the input), each HTML-escaped and
\* otherwise as it is in the source
RECURSIVE CodeBlocks(_, _, _, _)
CodeBlocks(src, n, acc, code) ==
  IF n > Len(src) THEN (IF code THEN <<acc>> ELSE <<>>)
  ELSE IF IsFenceLine(src[n])
    THEN (IF code THEN <<acc>> ELSE <<>>) \o CodeBlocks(src, n + 1, <<>>, ~code)
  ELSE IF code THEN CodeBlocks(src, n + 1, Append(acc, escapeHtml(src[n])), code)
  ELSE CodeBlocks(src, n + 1, <<>>, code)

\* the code blocks of the output: for each <pre> the lines up to its </pre>
RECURSIVE PreBlocks(_, _)
PreBlocks(segments, n) ==
  IF n > Len(segments) THEN <<>>
  ELSE IF segments[n] = PreOpen
    THEN LET stop == CHOOSE k \in (n + 1)..(Len(segments) + 1) :
                       /\ \A m \in (n + 1)..(k - 1) : segments[m] # PreClose
                       /\ k = Len(segments) + 1 \/ segments[k] = PreClose
         IN  <<SubSeq(segments, n + 1, stop - 1)>> \o PreBlocks(segments, stop + 1)
  ELSE PreBlocks(segments, n + 1)

\* C22: every line between an opening fence and its closing fence (or the
\* end of the input) is in the output once, in order, HTML-escaped and
\* otherwise unchanged, blank lines included: each <pre> of the output
\* holds exactly the lines of its fence.
C22_CodeLinesVerbatim ==
  mdPc = "done" => PreBlocks(RenderedSegments, 1) = CodeBlocks(lines, 1, <<>>, FALSE)

\* no block has two blank lines in a row
NoRepeatedBlank(blocks) ==
  \A b \in 1..Len(blocks) : \A k \in 1..(Len(blocks[b]) - 1) :
    ~(blocks[b][k] = <<>> /\ blocks[b][k + 1] = <<>>)

\* the same, for the sources whose code blocks have no two blank lines in a
\* row
CodeLinesVerbatimUnlessBlankRepeated ==
  (mdPc = "done" /\ NoRepeatedBlank(CodeBlocks(lines, 1, <<>>, FALSE))) =>
    PreBlocks(RenderedSegments, 1) = CodeBlocks(lines, 1, <<>>, FALSE)

\* text is x between two copies of the delimiter d, x not empty
IsWrapped(text, d) ==
  /\ Len(text) > 2 * Len(d)
  /\ HasAt(text, d, 1)
  /\ HasAt(text, d, Len(text) - Len(d) + 1)

Inner(text, d) == SubSeq(text, Len(d) + 1, Len(text) - Len(d))

Has(text, c) == \E i \in 1..Len(text) : text[i] = c

\* x has none of the characters the substitutions look for
PlainText(x) == \A i \in 1..Len(x) : x[i] \notin {"*", "_", Backtick, "[", "]", "(", ")"}

Paragraph(body) == <<"<", "p", ">">> \o body \o <<"<", "/", "p", ">">>

LinkTo(url, label) ==
  <<"<", "a", " ", "h", "r", "e", "f", "=", "\"">> \o url
    \o <<"\"", " ", "t", "a", "r", "g", "e", "t", "=", "\"", "_", "b", "l", "a", "n", "k", "\"", " ", "r", "e", "l", "=", "\"", "n", "o", "r", "e", "f", "e", "r", "r", "e", "r", " ", "n", "o", "o", "p", "e", "n", "e", "r", "\"", ">">>
    \o label \o <<"<", "/", "a", ">">>

LinkHead == <<"[", "a", "]", "(">>

IsLinkToUrl(text) ==
  /\ Len(text) > Len(LinkHead) + 1
  /\ HasAt(text, LinkHead, 1)
  /\ text[Len(text)] = ")"
  /\ ~Has(SubSeq(text, Len(LinkHead) + 1, Len(text) - 1), ")")

UrlOf(text) == SubSeq(text, Len(LinkHead) + 1, Len(text) - 1)

\* what C23 says of a line, given whether the text inside a code span or a
\* link's URL is any text or only text with no markup characters
InlineAsClaimed(anyInner) ==
  mdPc = "done" =>
    /\ (IsWrapped(markdown, <<"*", "*">>) /\ PlainText(Inner(markdown, <<"*", "*">>))) =>
         rendered = Paragraph(<<"<", "s", "t", "r", "o", "n", "g", ">">>
                                \o escapeHtml(Inner(markdown, <<"*", "*">>))
                                \o <<"<", "/", "s", "t", "r", "o", "n", "g", ">">>)
    /\ (IsWrapped(markdown, <<Backtick>>) /\ ~Has(Inner(markdown, <<Backtick>>), Backtick)
          /\ (anyInner \/ PlainText(Inner(markdown, <<Backtick>>)))) =>
         rendered = Paragraph(<<"<", "c", "o", "d", "e", ">">>
                                \o escapeHtml(Inner(markdown, <<Backtick>>))
                                \o <<"<", "/", "c", "o", "d", "e", ">">>)
    /\ (IsLinkToUrl(markdown) /\ (anyInner \/ PlainText(UrlOf(markdown)))) =>
         rendered = Paragraph(LinkTo(escapeHtml(UrlOf(markdown)), <<"a">>))

\* C23: the text is escaped first and the substitutions do not rewrite
\* each other's text: **x** (x plain) becomes <strong>x</strong> and
\* nothing else, the contents of an inline code span are its escaped text
\* inside <code>, and a link's URL is its escaped text inside href.
C23_SubstitutionsDoNotOverlap == InlineAsClaimed(TRUE)

\* the same, for code spans and URLs with no markup characters in them
SubstitutionsOnPlainText == InlineAsClaimed(FALSE)

\* the line starts with 1..maxLevel '#' and then whitespace
HashesThenSpace(line, maxLevel) ==
  LET n == LeadingHashes(line)
  IN  /\ n >= 1
      /\ n <= maxLevel
      /\ Len(line) > n
      /\ line[n + 1] \in Whitespace

\* the heading of level min(n, 6) with the text after the '#' prefix
HeadingOfLevel(line) ==
  LET n     == LeadingHashes(line)
      level == IF n < 6 THEN n ELSE 6
      digit == <<"1", "2", "3", "4", "5", "6">>[level]
      rest  == TrimStart(SubSeq(line, n + 1, Len(line)))
  IN  <<"<", "h", digit, ">">> \o renderInlineMarkdown(rest) \o <<"<", "/", "h", digit, ">">>

AnyHashes(raw) == HashesThenSpace(raw, Len(raw))

UpToSixHashes(raw) == HashesThenSpace(TrimEnd(raw), 6)

\* the headings of the source in order: the lines outside code blocks that
\* start with '#' and whitespace (anyLevel: any number of '#'; otherwise one
\* to six of them), each as HeadingOfLevel makes it
RECURSIVE HeadingsOf(_, _, _, _)
HeadingsOf(src, n, code, anyLevel) ==
  IF n > Len(src) THEN <<>>
  ELSE IF IsFenceLine(src[n]) THEN HeadingsOf(src, n + 1, ~code, anyLevel)
  ELSE IF ~code /\ (IF anyLevel THEN AnyHashes(src[n]) ELSE UpToSixHashes(src[n]))
    THEN <<HeadingOfLevel(TrimEnd(src[n]))>> \o HeadingsOf(src, n + 1, code, anyLevel)
  ELSE HeadingsOf(src, n + 1, code, anyLevel)

IsHeadingSegment(seg) == StartsWith(seg, <<"<", "h">>)

RenderedHeadings == SelectSeq(RenderedSegments, IsHeadingSegment)

\* C24: the headings of the output are, in order, the lines outside code
\* blocks that start with n >= 1 '#' and then whitespace, each as the
\* heading of level min(n, 6) whose text is the inline-formatted rest of
\* the line.
C24_HeadingForEveryHashPrefix ==
  mdPc = "done" => RenderedHeadings = HeadingsOf(SplitLines(markdown), 1, FALSE, TRUE)

\* the same for the lines that, with their trailing whitespace removed,
\* start with one to six '#' and then whitespace: a line of seven or more
\* '#' and a '#' with nothing after it but whitespace are paragraphs
HeadingForOneToSixHashes ==
  mdPc = "done" => RenderedHeadings = HeadingsOf(SplitLines(markdown), 1, FALSE, FALSE)

\* a document with a heading and, outside code, a line of seven '#' or a
\* bare '#' has been rendered
HeadingForOneToSixHashes_Witness ==
  /\ mdPc = "done"
  /\ RenderedHeadings # <<>>
  /\ \E i \in 1..Len(SplitLines(markdown)) :
       /\ AnyHashes(SplitLines(markdown)[i])
       /\ ~UpToSixHashes(SplitLines(markdown)[i])
       /\ HeadingsOf(SplitLines(markdown), 1, FALSE, TRUE)
            # HeadingsOf(SplitLines(markdown), 1, FALSE, FALSE)

ListingNames(p) == [k \in 1..Len(resp[p].files) |-> resp[p].files[k].name]

Listed(p) == method[p] = "LIST" /\ pc[p] = "done" /\ resp[p].success

\* the regular files directly in the workspace root, by name
RootFileNames ==
  {EntryName(q) : q \in {q \in DOMAIN fs : /\ IsFile(fs, q)
                                            /\ StartsWith(q, WORKSPACE_DIR \o <<sep>>)
                                            /\ ~Includes(EntryName(q), <<sep>>)}}

\* C15: a listing holds exactly the names of the regular files directly in
\* the workspace root, each once, no directory and no file of a
\* subdirectory, in ascending order of name.
C15_ListingIsRootFilesSorted ==
  \A p \in Procs : Listed(p) =>
    /\ {ListingNames(p)[k] : k \in 1..Len(ListingNames(p))} = RootFileNames
    /\ Len(ListingNames(p)) = Cardinality(RootFileNames)
    /\ \A k \in 1..(Len(ListingNames(p)) - 1) :
         localeCompare(ListingNames(p)[k], ListingNames(p)[k + 1]) < 0

\* a listing of a root that holds three files differing in case and a
\* directory with a file in it
C15_Witness ==
  /\ Listed(1)
  /\ IsDir(fs, WORKSPACE_DIR \o <<"/", "d">>)
  /\ IsFile(fs, WORKSPACE_DIR \o <<"/", "d", "/", "a">>)
  /\ ListingNames(1) = <<<<"a">>, <<"B">>, welcomeName>>

(***************************************************************************)
(* The desktop's agent windows: App.tsx keeps the window list in React     *)
(* state and reconciles it with the agent manifest in an effect.  State    *)
(* updates are functional updaters, applied in the order they are queued;  *)
(* an effect reads the manifest and the dismissed ids of the render that   *)
(* scheduled it.                                                           *)
(***************************************************************************)
VARIABLES windows, agentWindowConfigs, dismissedAgentWindowIds,
          closure, effects, dirty

appVars == <<windows, agentWindowConfigs, dismissedAgentWindowIds,
             closure, effects, dirty>>

AgentPrefix == <<"a", "g", "e", "n", "t", ":">>

MyComputerId == <<"m", "y", "-", "c", "o", "m", "p", "u", "t", "e", "r">>

\* `agent:${config.id}`
AgentWindowId(config) == AgentPrefix \o config.id

\* getAgentWindowSignature
getAgentWindowSignature(config) ==
  IF config.kind = "markdown"
    THEN <<"m", "a", "r", "k", "d", "o", "w", "n", ":">> \o config.file
    ELSE <<"c", "o", "m", "p", "o", "n", "e", "n", "t", ":">> \o config.id

\* renderAgentWindowContent: the element, as its type and props
renderAgentWindowContent(config) ==
  IF config.kind = "component"
    THEN [type |-> config.component, filePath |-> <<>>, title |-> "undefined"]
    ELSE [type |-> "MarkdownViewer", filePath |-> config.file,
          title |-> config.title]

ComponentRef(config) ==
  IF config.kind = "component" THEN config.component ELSE "undefined"

\* Array.prototype.filter / map / find / some on sequences
FilterSeq(s, Keep(_)) == SelectSeq(s, Keep)

MapSeq(s, F(_)) == [i \in 1..Len(s) |-> F(s[i])]

SomeSeq(s, P(_)) == \E i \in 1..Len(s) : P(s[i])

FindIndex(s, P(_)) ==
  IF SomeSeq(s, P) THEN CHOOSE i \in 1..Len(s) :
                          P(s[i]) /\ \A j \in 1..(i - 1) : ~P(s[j])
  ELSE 0

IsAgentWindow(window) == StartsWith(window.id, AgentPrefix)

\* the window a descriptor is rendered into (added or updated)
AgentWindow(id, config) ==
  [id |-> id, title |-> config.title,
   content |-> renderAgentWindowContent(config),
   agentSignature |-> getAgentWindowSignature(config),
   agentComponent |-> ComponentRef(config)]

\* the descriptors that are not open, as new windows
AdditionsOf_Dismissed(configs, dismissed, existingIds) ==
  LET notOpen(config) == AgentWindowId(config) \notin existingIds
      added(config) == AgentWindow(AgentWindowId(config), config)
  IN  MapSeq(FilterSeq(configs, notOpen), added)

\* the descriptors that are neither dismissed nor open, as new windows
AdditionsOf(configs, dismissed, existingIds) ==
  LET notDismissed(config) == ~SomeSeq(dismissed, LAMBDA d : d = AgentWindowId(config))
      notOpen(config) == AgentWindowId(config) \notin existingIds
      added(config) == AgentWindow(AgentWindowId(config), config)
  IN  MapSeq(FilterSeq(FilterSeq(configs, notDismissed), notOpen), added)

\* the updater the reconciliation effect hands to setWindows
Reconcile(prev, configs, dismissed) ==
  LET agentIds == {AgentWindowId(configs[i]) : i \in 1..Len(configs)}
      dismissedSet == {dismissed[i] : i \in 1..Len(dismissed)}
      keep(window) ==
        \/ ~IsAgentWindow(window)
        \/ window.id \in agentIds /\ window.id \notin dismissedSet
      trimmed == FilterSeq(prev, keep)
      update(window) ==
        IF ~IsAgentWindow(window) THEN window
        ELSE LET k == FindIndex(configs, LAMBDA item : AgentWindowId(item) = window.id)
                 config == configs[k]
             IN  IF k = 0 THEN window
                 ELSE IF /\ window.title = config.title
                         /\ window.agentSignature = getAgentWindowSignature(config)
                         /\ ~(config.kind = "component"
                                /\ window.agentComponent # ComponentRef(config))
                        THEN window
                        ELSE [window EXCEPT
                                !.title = config.title,
                                !.content = renderAgentWindowContent(config),
                                !.agentSignature = getAgentWindowSignature(config),
                                !.agentComponent = ComponentRef(config)]
      updated == MapSeq(trimmed, update)
      existingIds == {updated[i].id : i \in 1..Len(updated)}
  IN  updated \o AdditionsOf(configs, dismissed, existingIds)

MyComputerWindow ==
  [id |-> MyComputerId, title |-> "My Computer",
   content |-> [type |-> "MyComputer", filePath |-> <<>>, title |-> "undefined"],
   agentSignature |-> <<>>, agentComponent |-> "undefined"]

\* the descriptors a manifest is written with
DescriptorIds == {<<"a">>, <<"b">>}

Descriptors ==
  {[id |-> i, title |-> "T1", kind |-> "markdown", file |-> <<"f">>,
    component |-> "undefined"] : i \in DescriptorIds}
  \cup {[id |-> i, title |-> "T2", kind |-> "component", file |-> <<>>,
         component |-> "Widget"] : i \in DescriptorIds}

MaxManifest == 2

Manifests == UNION {[1..n -> Descriptors] : n \in 0..MaxManifest}

InitApp ==
  /\ windows = <<>>
  /\ agentWindowConfigs = <<>>
  /\ dismissedAgentWindowIds = <<>>
  /\ closure = [configs |-> <<>>, dismissed |-> <<>>]
  /\ effects = {}
  /\ dirty = {}

\* import.meta.hot.accept: the manifest module was replaced.  The effects
\* of the last render read its closure, not the state, so they commute
\* with this update: it is taken once they have run.
AcceptManifest(manifest) ==
  /\ effects = {}
  /\ agentWindowConfigs' = manifest
  /\ dirty' = dirty \cup {"agentWindowConfigs"}
  /\ UNCHANGED <<windows, dismissedAgentWindowIds, closure, effects>>

\* handleCloseWindow, for a window that is open
handleCloseWindow(id) ==
  /\ SomeSeq(windows, LAMBDA window : window.id = id)
  /\ windows' = FilterSeq(windows, LAMBDA window : window.id # id)
  /\ IF StartsWith(id, AgentPrefix)
          /\ ~SomeSeq(dismissedAgentWindowIds, LAMBDA d : d = id)
       THEN /\ dismissedAgentWindowIds' = Append(dismissedAgentWindowIds, id)
            /\ dirty' = dirty \cup {"dismissedAgentWindowIds"}
       ELSE UNCHANGED <<dismissedAgentWindowIds, dirty>>
  /\ UNCHANGED <<agentWindowConfigs, closure, effects>>

\* openStaticWindow, for the My Computer window
openStaticWindow ==
  /\ windows' = FilterSeq(windows, LAMBDA item : item.id # MyComputerId)
                  \o <<MyComputerWindow>>
  /\ UNCHANGED <<agentWindowConfigs, dismissedAgentWindowIds, closure, effects, dirty>>

\* the effect on [agentWindowConfigs] that forgets the dismissed ids the
\* manifest no longer has; filter returns a new array
PruneEffect ==
  /\ "prune" \in effects
  /\ dismissedAgentWindowIds' =
       FilterSeq(dismissedAgentWindowIds,
                 LAMBDA id : SomeSeq(closure.configs,
                                     LAMBDA config : AgentWindowId(config) = id))
  /\ dirty' = dirty \cup {"dismissedAgentWindowIds"}
  /\ effects' = effects \ {"prune"}
  /\ UNCHANGED <<windows, agentWindowConfigs, closure>>

\* the effect on [agentWindowConfigs, dismissedAgentWindowIds]; it is
\* declared after the pruning effect and runs after it
ReconcileEffect ==
  /\ effects = {"reconcile"}
  /\ windows' = Reconcile(windows, closure.configs, closure.dismissed)
  /\ effects' = {}
  /\ UNCHANGED <<agentWindowConfigs, dismissedAgentWindowIds, closure, dirty>>

\* the next render: it follows the effects of the previous one, and
\* schedules the effects whose dependencies changed
Render ==
  /\ effects = {}
  /\ dirty # {}
  /\ closure' = [configs |-> agentWindowConfigs,
                 dismissed |-> dismissedAgentWindowIds]
  /\ effects' = IF "agentWindowConfigs" \in dirty
                  THEN {"prune", "reconcile"} ELSE {"reconcile"}
  /\ dirty' = {}
  /\ UNCHANGED <<windows, agentWindowConfigs, dismissedAgentWindowIds>>

NextApp ==
  \/ \E manifest \in Manifests : AcceptManifest(manifest)
  \/ \E i \in 1..Len(windows) : handleCloseWindow(windows[i].id)
  \/ openStaticWindow
  \/ PruneEffect
  \/ ReconcileEffect
  \/ Render

(***************************************************************************)
(* Properties of the agent windows                                         *)
(***************************************************************************)
\* every effect has run and no render is due
Reconciled == effects = {} /\ dirty = {}

DistinctIds(configs) ==
  \A i, j \in 1..Len(configs) : configs[i].id = configs[j].id => i = j

OpenAgentWindows == FilterSeq(windows, IsAgentWindow)

IsDismissed(config) ==
  SomeSeq(dismissedAgentWindowIds, LAMBDA id : id = AgentWindowId(config))

\* the descriptors of the manifest the user has not dismissed
ShownDescriptors ==
  {agentWindowConfigs[i] : i \in {k \in 1..Len(agentWindowConfigs) :
                                    ~IsDismissed(agentWindowConfigs[k])}}

\* C16: once the reconciliation has run for a manifest with distinct ids,
\* the open agent windows are exactly the descriptors that are not
\* dismissed: one window agent:<id> for each, carrying the descriptor's
\* title and content, and no agent window for an id the manifest lacks.
C16_AgentWindowsAreShownDescriptors ==
  (Reconciled /\ DistinctIds(agentWindowConfigs)) =>
    /\ \A i, j \in 1..Len(OpenAgentWindows) :
         OpenAgentWindows[i].id = OpenAgentWindows[j].id => i = j
    /\ {OpenAgentWindows[i] : i \in 1..Len(OpenAgentWindows)}
         = {AgentWindow(AgentWindowId(config), config) : config \in ShownDescriptors}

(***************************************************************************)
(* Usage statistics (gemini-agent.js): recordUsageStats keeps the latest   *)
(* stats object and a running aggregate in module-level variables.  A      *)
(* stats object is whatever JSON the subprocess printed under "stats":     *)
(* any of its fields can be missing.  Of a model's counters the model      *)
(* keeps the five the summary reads (the others are merged by the same     *)
(* statements), of the tool counters totalCalls and totalDecisions, of the *)
(* file counters totalLinesAdded; timestamps are left out.                 *)
(***************************************************************************)
VARIABLES aggregateUsage, latestUsageRecord, recorded

statsVars == <<aggregateUsage, latestUsageRecord, recorded>>

\* a field the object does not have (undefined)
Absent == -1

\* value ?? 0
OrZero(value) == IF value = Absent THEN 0 ELSE value

ModelNames == {"m", "n"}

ModelStats(requests, prompt, candidates, total, cached) ==
  [isNull |-> FALSE, totalRequests |-> requests, prompt |-> prompt,
   candidates |-> candidates, total |-> total, cached |-> cached]

\* a model entry that is JSON null
NullModel ==
  [isNull |-> TRUE, totalRequests |-> Absent, prompt |-> Absent,
   candidates |-> Absent, total |-> Absent, cached |-> Absent]

\* normalizeModelStats: every counter read through ?. and ?? 0
normalizeModelStats(stats) ==
  ModelStats(OrZero(stats.totalRequests), OrZero(stats.prompt),
             OrZero(stats.candidates), OrZero(stats.total), OrZero(stats.cached))

AddModelStats(existing, incoming) ==
  ModelStats(existing.totalRequests + incoming.totalRequests,
             existing.prompt + incoming.prompt,
             existing.candidates + incoming.candidates,
             existing.total + incoming.total,
             existing.cached + incoming.cached)

\* a stats object: models (absent, or a map from names to entries), tools
\* (absent, or totalCalls with or without totalDecisions), files (absent,
\* or totalLinesAdded)
StatsObject(hasModels, models, tools, files) ==
  [hasModels |-> hasModels, models |-> models, tools |-> tools, files |-> files]

NoTools == [present |-> FALSE, hasDecisions |-> FALSE, totalCalls |-> 0, accept |-> 0]

\* Object.entries(source?.models ?? {})
EntriesOf(stats) == IF stats.hasModels THEN DOMAIN stats.models ELSE {}

\* mergeModelStats: throws on target.models[modelName] when the target has
\* no models object
ModelMergeThrows(target, source) == EntriesOf(source) # {} /\ ~target.hasModels

mergeModelStats(target, source) ==
  [target EXCEPT !.models =
     [name \in DOMAIN target.models \cup EntriesOf(source) |->
        IF name \in EntriesOf(source)
          THEN AddModelStats(
                 IF name \in DOMAIN target.models
                   THEN normalizeModelStats(target.models[name])
                   ELSE ModelStats(0, 0, 0, 0, 0),
                 normalizeModelStats(source.models[name]))
          ELSE target.models[name]]]

\* mergeToolStats: returns early without incoming tools; throws on
\* target.tools.totalCalls without target tools, and on
\* target.tools.totalDecisions.accept, after totalCalls was added, when the
\* target's tools have no totalDecisions
ToolMergeThrows(target, source) ==
  source.tools.present /\ (~target.tools.present \/ ~target.tools.hasDecisions)

mergeToolStats(target, source) ==
  IF ~source.tools.present \/ ~target.tools.present THEN target
  ELSE IF ~target.tools.hasDecisions
    THEN [target EXCEPT !.tools.totalCalls = @ + source.tools.totalCalls]
    ELSE [target EXCEPT !.tools.totalCalls = @ + source.tools.totalCalls,
                        !.tools.accept = @ + source.tools.accept]

\* mergeFileStats: throws on target.files.totalLinesAdded without target
\* files
FileMergeThrows(target, source) == target.files = Absent

mergeFileStats(target, source) ==
  IF target.files = Absent THEN target
  ELSE [target EXCEPT !.files = @ + OrZero(source.files)]

\* mergeStats mutates the target in place: what the target holds when the
\* call returns or throws, and whether it threw
mergeStats(target, source) ==
  IF ModelMergeThrows(target, source) THEN [stats |-> target, threw |-> TRUE]
  ELSE LET afterModels == mergeModelStats(target, source) IN
       IF ToolMergeThrows(afterModels, source)
         THEN [stats |-> mergeToolStats(afterModels, source), threw |-> TRUE]
       ELSE LET afterTools == mergeToolStats(afterModels, source) IN
            IF FileMergeThrows(afterTools, source)
              THEN [stats |-> afterTools, threw |-> TRUE]
              ELSE [stats |-> mergeFileStats(afterTools, source), threw |-> FALSE]

RECURSIVE SumOver(_, _)
SumOver(S, value) ==
  IF S = {} THEN 0
  ELSE LET x == CHOOSE y \in S : TRUE IN value[x] + SumOver(S \ {x}, value)

\* computeSummary reads model.api on every entry: it throws on a null one
SummaryThrows(stats) == \E name \in EntriesOf(stats) : stats.models[name].isNull

\* the per-model line of computeSummary
ModelSummary(model) ==
  [requests |-> OrZero(model.totalRequests),
   promptTokens |-> OrZero(model.prompt),
   outputTokens |-> OrZero(model.candidates),
   totalTokens |-> IF model.total = Absent
                     THEN OrZero(model.prompt) + OrZero(model.candidates)
                     ELSE model.total,
   cachedTokens |-> OrZero(model.cached)]

computeSummary(stats) ==
  LET names == EntriesOf(stats)
      line == [name \in names |-> ModelSummary(stats.models[name])]
  IN  [totalRequests |-> SumOver(names, [name \in names |-> line[name].requests]),
       totalPromptTokens |-> SumOver(names, [name \in names |-> line[name].promptTokens]),
       totalOutputTokens |-> SumOver(names, [name \in names |-> line[name].outputTokens]),
       totalTokens |-> SumOver(names, [name \in names |-> line[name].totalTokens]),
       totalCachedTokens |-> SumOver(names, [name \in names |-> line[name].cachedTokens]),
       models |-> line]

EmptyStats == StatsObject(FALSE, << >>, NoTools, Absent)

\* aggregateUsage = null
NoAggregate ==
  [present |-> FALSE, stats |-> EmptyStats, summary |-> computeSummary(EmptyStats),
   sessions |-> 0]

\* latestUsageRecord = null
NoLatest == [present |-> FALSE, stats |-> EmptyStats,
             summary |-> computeSummary(EmptyStats)]

InitStats ==
  /\ aggregateUsage = NoAggregate
  /\ latestUsageRecord = NoLatest
  /\ recorded = <<>>

MaxRecords == 2

\* recordUsageStats(stats) for a stats object (the caller passes only
\* truthy values)
recordUsageStats(stats) ==
  /\ Len(recorded) < MaxRecords
  /\ recorded' = Append(recorded, stats)
  /\ IF SummaryThrows(stats)
       THEN UNCHANGED <<aggregateUsage, latestUsageRecord>>
       ELSE /\ latestUsageRecord' = [present |-> TRUE, stats |-> stats,
                                     summary |-> computeSummary(stats)]
            /\ aggregateUsage' =
                 IF ~aggregateUsage.present
                   THEN [present |-> TRUE, stats |-> stats,
                         summary |-> computeSummary(stats), sessions |-> 1]
                 ELSE LET merged == mergeStats(aggregateUsage.stats, stats) IN
                      IF merged.threw
                        THEN [aggregateUsage EXCEPT !.stats = merged.stats]
                        ELSE [aggregateUsage EXCEPT
                                !.stats = merged.stats,
                                !.summary = computeSummary(merged.stats),
                                !.sessions = @ + 1]

\* the stats objects the subprocess prints
ModelEntriesM ==
  {ModelStats(1, 1, 2, 3, 1), ModelStats(1, 1, 2, Absent, Absent), NullModel}

ModelMaps ==
  {<< >>}
    \cup {[name \in {"m"} |-> e] : e \in ModelEntriesM}
    \cup {[name \in {"n"} |-> ModelStats(1, 1, 2, 3, 1)]}
    \cup {[name \in {"m", "n"} |->
            IF name = "m" THEN e ELSE ModelStats(1, 1, 2, 3, 1)] : e \in ModelEntriesM}

ToolsValues ==
  {NoTools,
   [present |-> TRUE, hasDecisions |-> FALSE, totalCalls |-> 1, accept |-> 0],
   [present |-> TRUE, hasDecisions |-> TRUE, totalCalls |-> 1, accept |-> 1]}

StatsObjects ==
  {StatsObject(TRUE, models, tools, files) :
     models \in ModelMaps, tools \in ToolsValues, files \in {Absent, 1}}
    \cup {StatsObject(FALSE, << >>, tools, files) :
            tools \in ToolsValues, files \in {Absent, 1}}

NextStats == \E stats \in StatsObjects : recordUsageStats(stats)

(***************************************************************************)
(* Properties of the usage statistics                                      *)
(***************************************************************************)
CounterNames == {"totalRequests", "prompt", "candidates", "total", "cached"}

\* a counter of a model in a stats object, absent counted as 0
CounterOf(stats, name, counter) ==
  IF name \in EntriesOf(stats) THEN OrZero(stats.models[name][counter]) ELSE 0

\* the field-wise sum of a counter over the recorded objects
RecordedSum(name, counter) ==
  SumOver(1..Len(recorded),
          [i \in 1..Len(recorded) |-> CounterOf(recorded[i], name, counter)])

RecordedTotal(counter) ==
  SumOver(ModelNames, [name \in ModelNames |-> RecordedSum(name, counter)])

\* C18: after any sequence of recorded stats objects the aggregate's session
\* count is the number of objects recorded, every per-model counter of the
\* aggregate is the sum of that counter over the recorded objects (absent
\* counted as 0), and so are the summary totals.
C18_AggregateIsFieldwiseSum ==
  aggregateUsage.present =>
    /\ aggregateUsage.sessions = Len(recorded)
    /\ \A name \in ModelNames, counter \in CounterNames :
         CounterOf(aggregateUsage.stats, name, counter) = RecordedSum(name, counter)
    /\ aggregateUsage.summary.totalRequests = RecordedTotal("totalRequests")
    /\ aggregateUsage.summary.totalPromptTokens = RecordedTotal("prompt")
    /\ aggregateUsage.summary.totalOutputTokens = RecordedTotal("candidates")
    /\ aggregateUsage.summary.totalTokens = RecordedTotal("total")
    /\ aggregateUsage.summary.totalCachedTokens = RecordedTotal("cached")

(***************************************************************************)
(* The frontend's fetch helper (lib/api.ts): requestJson tries the API     *)
(* bases one after the other.                                              *)
(***************************************************************************)
VARIABLES rawEnvBase, init, bases, baseIndex, contacted, lastError, outcome, apiPc

apiVars == <<rawEnvBase, init, bases, baseIndex, contacted, lastError, outcome, apiPc>>

LowerLetters == <<"a", "b", "c", "d", "e", "f", "g", "h", "i", "j", "k", "l", "m",
                  "n", "o", "p", "q", "r", "s", "t", "u", "v", "w", "x", "y", "z">>

UpperLetters == <<"A", "B", "C", "D", "E", "F", "G", "H", "I", "J", "K", "L", "M",
                  "N", "O", "P", "Q", "R", "S", "T", "U", "V", "W", "X", "Y", "Z">>

\* String.prototype.toUpperCase
toUpperCase(s) ==
  [i \in 1..Len(s) |->
     IF \E k \in 1..Len(LowerLetters) : LowerLetters[k] = s[i]
       THEN UpperLetters[CHOOSE k \in 1..Len(LowerLetters) : LowerLetters[k] = s[i]]
       ELSE s[i]]

\* 'http://localhost:3001'
LocalBackend == <<"h", "t", "t", "p", ":", "/", "/", "l", "o", "c", "a", "l",
                  "h", "o", "s", "t", ":", "3", "0", "0", "1">>

\* rawEnvBase ? rawEnvBase.replace(/\/$/, '') : ''
primaryBase ==
  IF rawEnvBase # <<>> /\ rawEnvBase[Len(rawEnvBase)] = "/"
    THEN SubSeq(rawEnvBase, 1, Len(rawEnvBase) - 1)
    ELSE rawEnvBase

\* primaryBase ? null : 'http://localhost:3001', null written as no base
fallbackBase == IF primaryBase # <<>> THEN <<>> ELSE <<LocalBackend>>

\* Array.prototype.filter((base, index, array) => array.indexOf(base) === index)
RECURSIVE Dedupe(_)
Dedupe(s) ==
  IF s = <<>> THEN <<>>
  ELSE LET front == Dedupe(SubSeq(s, 1, Len(s) - 1))
           last == s[Len(s)]
       IN  IF \E i \in 1..Len(front) : front[i] = last THEN front
           ELSE Append(front, last)

uniqueBases ==
  Dedupe((IF primaryBase # <<>> THEN <<primaryBase>> ELSE <<>>)
           \o << <<>> >> \o fallbackBase)

\* init.method, which a caller may leave out
NoMethod == [given |-> FALSE, value |-> <<>>]

Method(value) == [given |-> TRUE, value |-> value]

shouldRetry_Always(request) == TRUE

\* shouldRetry: (init?.method?.toUpperCase() ?? 'GET') === 'GET'
shouldRetry(request) ==
  (IF request.given THEN toUpperCase(request.value) ELSE <<"G", "E", "T">>)
    = <<"G", "E", "T">>

\* what one attemptRequest can come to: fetch rejects; the response is not
\* ok (with its status); the response is ok and its text is empty, is
\* JSON, or is not JSON
AttemptOutcomes == {"network", "404", "500", "ok-empty", "ok-json", "ok-text"}

AttemptSucceeds(o) == o \in {"ok-empty", "ok-json"}

\* the error attemptRequest throws: only a response that is not ok gives it
\* a status
RequestError(base, o) ==
  [set |-> TRUE, base |-> base, cause |-> o,
   status |-> IF o = "404" THEN 404 ELSE IF o = "500" THEN 500 ELSE 0]

NoError == [set |-> FALSE, base |-> <<>>, cause |-> "", status |-> 0]

InitApi ==
  /\ rawEnvBase = <<>>
  /\ init = NoMethod
  /\ bases = <<>>
  /\ baseIndex = 0
  /\ contacted = <<>>
  /\ lastError = NoError
  /\ outcome = [state |-> "pending", error |-> NoError]
  /\ apiPc = "idle"

\* requestJson, up to the loop
RequestJson ==
  /\ apiPc = "idle"
  /\ bases' = uniqueBases
  /\ baseIndex' = 1
  /\ apiPc' = "loop"
  /\ UNCHANGED <<rawEnvBase, init, contacted, lastError, outcome>>

\* one turn of the loop: the attempt against the next base, and the return
\* or the catch block
AttemptRequest(o) ==
  /\ apiPc = "loop"
  /\ baseIndex <= Len(bases)
  /\ LET base == bases[baseIndex]
         canTryNextBase == shouldRetry(init) \/ (o = "404" /\ base = <<>>)
     IN  /\ contacted' = Append(contacted, [base |-> base, result |-> o])
         /\ IF AttemptSucceeds(o)
              THEN /\ outcome' = [state |-> "returned", error |-> NoError]
                   /\ apiPc' = "done"
                   /\ UNCHANGED <<lastError, baseIndex>>
              ELSE /\ lastError' = RequestError(base, o)
                   /\ baseIndex' = IF canTryNextBase THEN baseIndex + 1 ELSE baseIndex
                   /\ apiPc' = IF canTryNextBase /\ baseIndex < Len(bases)
                                 THEN "loop" ELSE "throw"
                   /\ UNCHANGED outcome
  /\ UNCHANGED <<rawEnvBase, init, bases>>

\* throw lastError ?? new Error('Unable to reach API ...')
ThrowLastError ==
  /\ apiPc = "throw"
  /\ outcome' = [state |-> "threw",
                 error |-> IF lastError.set THEN lastError
                           ELSE [NoError EXCEPT !.cause = "unreachable"]]
  /\ apiPc' = "done"
  /\ UNCHANGED <<rawEnvBase, init, bases, baseIndex, contacted, lastError>>

NextApi == RequestJson \/ (\E o \in AttemptOutcomes : AttemptRequest(o)) \/ ThrowLastError

\* the values of VITE_API_BASE_URL (after trim) and the methods of the callers
EnvBases == {<<>>, <<"/">>, <<"h">>, <<"h", "/">>}

Methods ==
  {NoMethod, Method(<<"G", "E", "T">>), Method(<<"g", "e", "t">>),
   Method(<<"P", "U", "T">>), Method(<<"P", "O", "S", "T">>),
   Method(<<"D", "E", "L", "E", "T", "E">>)}

(***************************************************************************)
(* Properties of requestJson                                               *)
(***************************************************************************)
\* the request is a GET: no method given, or "get" in any case
IsGet == ~init.given \/ toLowerCase(init.value) = <<"g", "e", "t">>

\* the fixed order: the configured base and then the same origin, or the
\* same origin and then the local backend
BasesInOrder ==
  IF primaryBase # <<>> THEN <<primaryBase, <<>> >> ELSE << <<>>, LocalBackend>>

Failed(i) == ~AttemptSucceeds(contacted[i].result)

ApiDone == apiPc = "done"

\* C20: the bases are contacted in their fixed order and none after a
\* success; a GET that fails everywhere has tried every base; any other
\* method tries one base only, except that a 404 from the same-origin base
\* makes it try the next one; and when every attempt failed the error
\* thrown is that of the last attempt.
C20_BasesInOrderUntilSuccess ==
  apiPc # "idle" =>
    /\ Len(contacted) <= Len(BasesInOrder)
    /\ \A i \in 1..Len(contacted) : contacted[i].base = BasesInOrder[i]
    /\ \A i \in 1..(Len(contacted) - 1) : Failed(i)
    /\ ApiDone =>
         /\ Len(contacted) >= 1
         /\ outcome.state = "returned" <=> ~Failed(Len(contacted))
         /\ outcome.state = "threw" <=> Failed(Len(contacted))
         /\ outcome.state = "threw" =>
              /\ outcome.error.base = contacted[Len(contacted)].base
              /\ outcome.error.cause = contacted[Len(contacted)].result
         /\ (IsGet /\ outcome.state = "threw") => Len(contacted) = Len(BasesInOrder)
         /\ ~IsGet =>
              Len(contacted) = IF contacted[1] = [base |-> <<>>, result |-> "404"]
                                 THEN 2 ELSE 1

\* a PUT that got a 404 from the same origin and an answer from the local
\* backend
C20_Witness ==
  /\ ApiDone
  /\ init = Method(<<"P", "U", "T">>)
  /\ contacted = <<[base |-> <<>>, result |-> "404"],
                   [base |-> LocalBackend, result |-> "ok-json"]>>
  /\ outcome.state = "returned"

----------------------------------------------------------------------------
(* backend/smart-simulator.js: generateSmartTodoList.  The written file is  *)
(* the fixed template with three holes filled from the command: the title,  *)
(* the echoed request and the list items.  Characters outside ASCII are     *)
(* written "*".                                                             *)

VARIABLES
  todoCommand,   \* the command generateSmartTodoList was called with
  written        \* what the holes of the template hold in the written file

todoVars == <<todoCommand, written>>

\* escapeHtml of backend/smart-simulator.js, on one character
EscapeCommandChar(c) ==
  CASE c = "&" -> <<"&", "a", "m", "p", ";">>
    [] c = "<" -> <<"&", "l", "t", ";">>
    [] c = ">" -> <<"&", "g", "t", ";">>
    [] c = Quote -> <<"&", "q", "u", "o", "t", ";">>
    [] c = "'" -> <<"&", "#", "0", "3", "9", ";">>
    [] OTHER -> <<c>>

RECURSIVE escapeCommand(_)
escapeCommand(text) ==
  IF text = <<>> THEN <<>>
  ELSE EscapeCommandChar(Head(text)) \o escapeCommand(Tail(text))

TodoTitlePrefix ==
  <<"*", " ", "T", "o", "d", "o", " ", "L", "i", "s", "t", ":", " ">>

analyzeTodolist(command) ==
  LET lower == toLowerCase(command) IN
  IF \/ Includes(lower, <<"a", "s", "c", "i", "i">>)
     \/ Includes(lower, <<"a", "r", "t">>)
  THEN [title |-> <<"* ASCII Art Showcase">>, items |-> <<>>, customContent |-> TRUE]
  ELSE IF \/ Includes(lower, <<"s", "h", "o", "p">>)
          \/ Includes(lower, <<"g", "r", "o", "c", "e", "r", "i", "e", "s">>)
          \/ Includes(lower, <<"g", "r", "o", "c", "e", "r", "y">>)
          \/ Includes(lower, <<"b", "u", "y">>)
          \/ Includes(lower, <<"c", "a", "r", "r", "o", "t", "s">>)
          \/ Includes(lower, <<"a", "p", "p", "l", "e", "s">>)
  THEN [title |-> <<"* Shopping List">>,
        items |-> extractItems(command, DefaultGroceries),
        customContent |-> FALSE]
  ELSE IF \/ Includes(lower, <<"b", "l", "o", "g">>)
          \/ Includes(lower, <<"w", "r", "i", "t", "e">>)
          \/ Includes(lower, <<"a", "r", "t", "i", "c", "l", "e">>)
  THEN [title |-> <<"* Blog Writing Todo List">>,
        items |->
          <<<<"* Research topic and gather sources">>,
            <<"* Define target audience and key message">>,
            <<"* Write compelling headline and introduction">>,
            <<"* Draft main content sections">>,
            <<"* Add images, code examples, or diagrams">>,
            <<"* Proofread and edit for clarity">>,
            <<"* Publish and share on social media">>>>,
        customContent |-> FALSE]
  ELSE IF \/ Includes(lower, <<"c", "o", "d", "e">>)
          \/ Includes(lower, <<"a", "p", "p">>)
          \/ Includes(lower, <<"b", "u", "i", "l", "d">>)
          \/ Includes(lower, <<"i", "m", "p", "l", "e", "m", "e", "n", "t">>)
          \/ Includes(lower, <<"d", "e", "v", "e", "l", "o", "p">>)
  THEN [title |-> <<"* Development Todo List">>,
        items |->
          <<<<"* Design architecture and component structure">>,
            <<"* Create UI mockups or wireframes">>,
            <<"* Set up development environment">>,
            <<"* Implement core functionality">>,
            <<"* Write unit and integration tests">>,
            <<"* Debug and fix issues">>,
            <<"* Document code and API">>,
            <<"* Deploy to production">>>>,
        customContent |-> FALSE]
  ELSE IF \/ Includes(lower, <<"t", "r", "a", "v", "e", "l">>)
          \/ Includes(lower, <<"v", "a", "c", "a", "t", "i", "o", "n">>)
          \/ Includes(lower, <<"t", "r", "i", "p">>)
          \/ Includes(lower, <<"h", "o", "l", "i", "d", "a", "y">>)
  THEN [title |-> <<"* Travel Planning Todo List">>,
        items |->
          <<<<"* Choose destination and dates">>,
            <<"* Book flights and accommodation">>,
            <<"* Create daily itinerary">>,
            <<"* Arrange travel insurance">>,
            <<"* Pack essentials (clothes, documents, chargers)">>,
            <<"* Exchange currency or notify bank">>,
            <<"* Charge camera and devices">>,
            <<"* Arrange pet/plant care if needed">>>>,
        customContent |-> FALSE]
  ELSE IF \/ Includes(lower, <<"t", "w", "i", "t", "t", "e", "r">>)
          \/ Includes(lower, <<"t", "w", "e", "e", "t">>)
          \/ Includes(lower, <<"p", "o", "s", "t">>)
          \/ Includes(lower, <<"s", "o", "c", "i", "a", "l", " ", "m", "e", "d", "i", "a">>)
  THEN [title |-> <<"* Twitter Post Todo List">>,
        items |->
          <<<<"* Draft engaging tweet copy (keep it under 280 chars)">>,
            <<"* Create eye-catching visual or screenshot">>,
            <<"* Add relevant links or call-to-action">>,
            <<"* Include 2-3 relevant hashtags">>,
            <<"* Schedule for optimal posting time">>,
            <<"* Tag relevant accounts or collaborators">>,
            <<"* Monitor engagement and reply to comments">>,
            <<"* Retweet and amplify responses">>>>,
        customContent |-> FALSE]
  ELSE [title |-> TodoTitlePrefix \o Substring(command, 0, TitleEcho)
                  \o (IF Len(command) > TitleEcho THEN <<".", ".", ".">> ELSE <<>>),
        items |->
          <<<<"* Define clear goals and success criteria">>,
            <<"* Break down into smaller actionable steps">>,
            <<"* Set realistic deadlines for each step">>,
            <<"* Start with the highest priority item">>,
            <<"* Complete and verify each step">>,
            <<"* Document progress and learnings">>,
            <<"* Celebrate completion!">>>>,
        customContent |-> FALSE]

NoFile == [exists |-> FALSE, title |-> <<>>, request |-> <<>>, items |-> <<>>]

InitTodo ==
  /\ todoCommand = <<>>
  /\ written = NoFile

\* generateSmartTodoList(userCommand, outputPath): the template puts
\* todos.title in the <h2>, escapedCommand in the <p> and every item of
\* todos.items in an <li> (no list when the profile has custom content)
generateSmartTodoList ==
  /\ ~written.exists
  /\ LET todos == analyzeTodolist(todoCommand)
     IN  written' = [exists  |-> TRUE,
                     title   |-> todos.title,
                     request |-> escapeCommand(todoCommand),
                     items   |-> IF todos.customContent THEN <<>> ELSE todos.items]
  /\ UNCHANGED todoCommand

NextTodo == generateSmartTodoList

\* the pieces the commands are made of
TodoPieces ==
  {<<"b", "u", "y">>, <<"b", "l", "o", "g">>, <<Quote, "a", "<", Quote>>, <<Quote>>,
   <<":">>, <<",">>, <<"<">>, <<"&">>, <<"'">>, <<"a">>}

MaxTodoPieces == 4

TodoCommands == Concats(TodoPieces, MaxTodoPieces)

----------------------------------------------------------------------------
(* Properties of generateSmartTodoList                                     *)

Entities ==
  {<<"&", "a", "m", "p", ";">>, <<"&", "l", "t", ";">>, <<"&", "g", "t", ";">>,
   <<"&", "q", "u", "o", "t", ";">>, <<"&", "#", "0", "3", "9", ";">>}

\* s has no <, >, " or ', and every & of s starts an entity
NoRawMarkup(s) ==
  \A i \in 1..Len(s) :
    /\ s[i] \notin {"<", ">", Quote, "'"}
    /\ s[i] = "&" => \E e \in Entities : HasAt(s, e, i)

\* C25: in the written file the echoed request, the title and every list
\* item hold no raw <, >, &, " or ': the text taken from the command is
\* HTML-escaped before it is put in the template.
C25_CommandTextIsEscaped ==
  written.exists =>
    /\ NoRawMarkup(written.request)
    /\ NoRawMarkup(written.title)
    /\ \A k \in 1..Len(written.items) : NoRawMarkup(written.items[k])

\* the echoed request is the escaped command
EchoedRequestIsEscaped ==
  written.exists =>
    /\ written.request = escapeCommand(todoCommand)
    /\ NoRawMarkup(written.request)

----------------------------------------------------------------------------
(* App.tsx and MyComputer.tsx: the Create File form.  The form hands its    *)
(* path and type to handleCreateFile, which PUTs the file, marks it as the  *)
(* file to open and refreshes the listing; the effect on [workspaceFiles]   *)
(* opens the marked file when the listing has it.  The server is the        *)
(* handler process 1 of the file endpoints.                                 *)

VARIABLES
  newFilePath,                  \* the form's path field
  newFileType,                  \* the form's type field
  createPc,                     \* where the creation stands
  targetPath,                   \* the path createWorkspaceFile was called with
  workspaceFiles,               \* the listing of the last refresh
  pendingWorkspaceFileToOpen,   \* pendingWorkspaceFileToOpenRef.current
  created,                      \* the PUT of the creation succeeded (history)
  refreshes                     \* refreshes completed since then (history)

createVars == <<newFilePath, newFileType, createPc, targetPath, workspaceFiles,
                pendingWorkspaceFileToOpen, created, refreshes>>

NoPending == <<"null">>

FilePrefix == <<"f", "i", "l", "e", ":">>

\* the window handleOpenFile makes for a file; its title is the file's
\* name, the path content.filePath holds
FileWindow(file) ==
  [id |-> FilePrefix \o file.path, title |-> "file.name",
   content |-> [type |-> "FileEditor", filePath |-> file.path, title |-> "undefined"],
   agentSignature |-> <<>>, agentComponent |-> "undefined"]

\* the updater of handleOpenFile
OpenFileWindow(prev, file) ==
  FilterSeq(prev, LAMBDA item : item.id # FilePrefix \o file.path) \o <<FileWindow(file)>>

Digits == {"0", "1", "2", "3", "4", "5", "6", "7", "8", "9"}

\* [a-z0-9] under the flag i
IsAlnum(c) == c \in Digits \/ \E i \in DOMAIN Alphabet : Alphabet[i] = LowerOf(c)

\* the index at which /[.][a-z0-9]+$/i matches, or 0
ExtensionAt(s) ==
  LET at == {i \in 1..(Len(s) - 1) :
               s[i] = "." /\ \A k \in (i + 1)..Len(s) : IsAlnum(s[k])}
  IN  IF at = {} THEN 0 ELSE CHOOSE i \in at : \A k \in at : i <= k

ensureExtension(candidate, extension) ==
  IF EndsWith(toLowerCase(candidate), toLowerCase(extension)) THEN candidate
  ELSE IF ExtensionAt(candidate) # 0
    THEN SubSeq(candidate, 1, ExtensionAt(candidate) - 1) \o extension
  ELSE candidate \o extension

\* pathError of the form
pathError(path) ==
  \/ Trim(path) = <<>>
  \/ StartsWith(Trim(path), <<"/">>)
  \/ Includes(Trim(path), <<".", ".">>)
  \/ EndsWith(Trim(path), <<"/">>)

\* the path handleCreateFile creates for the form's path and type
TargetOf(trimmedPath, type) ==
  IF type = "markdown" THEN ensureExtension(trimmedPath, <<".", "m", "d">>)
  ELSE IF type = "csv" THEN ensureExtension(trimmedPath, <<".", "c", "s", "v">>)
  ELSE IF ExtensionAt(trimmedPath) = 0 THEN trimmedPath \o <<".", "t", "x", "t">>
  ELSE trimmedPath

\* the template of the type, cut to its first character
TemplateOf(type) ==
  IF type = "markdown" THEN <<"#">> ELSE IF type = "csv" THEN <<"x">> ELSE <<>>

InitCreate ==
  /\ newFilePath = <<>>
  /\ newFileType = "markdown"
  /\ createPc = "form"
  /\ targetPath = <<>>
  /\ workspaceFiles = <<>>
  /\ pendingWorkspaceFileToOpen = NoPending
  /\ created = FALSE
  /\ refreshes = 0

\* handleCreateSubmit, handleCreateFile and createWorkspaceFile up to its
\* PUT request
handleCreateSubmit ==
  /\ createPc = "form"
  /\ IF pathError(newFilePath)
        \/ Trim(newFilePath) = <<>>
        \/ StartsWith(Trim(newFilePath), <<"/">>)
        \/ Includes(Trim(newFilePath), <<".", ".">>)
     THEN /\ createPc' = "rejected"
          /\ UNCHANGED <<targetPath, fileVars>>
     ELSE LET target == TargetOf(Trim(newFilePath), newFileType)
              existing == SomeSeq(workspaceFiles, LAMBDA file : file.path = target)
          IN  \E shouldOverwrite \in BOOLEAN :
                IF existing /\ ~shouldOverwrite
                THEN /\ createPc' = "rejected"
                     /\ UNCHANGED <<targetPath, fileVars>>
                ELSE /\ targetPath' = target
                     /\ PutContent(1, target, TemplateOf(newFileType))
                     /\ createPc' = "put"
  /\ UNCHANGED <<newFilePath, newFileType, workspaceFiles,
                 pendingWorkspaceFileToOpen, created, refreshes, windows>>

\* createWorkspaceFile after its PUT: the file is marked and the refresh
\* requests the listing; a response that is not ok is thrown and caught
PutSettled ==
  /\ createPc = "put"
  /\ pc[1] = "done"
  /\ IF resp[1].success
     THEN /\ pendingWorkspaceFileToOpen' = targetPath
          /\ created' = TRUE
          /\ ListFiles(1)
          /\ createPc' = "list"
     ELSE /\ createPc' = "failed"
          /\ UNCHANGED <<pendingWorkspaceFileToOpen, created, fileVars>>
  /\ UNCHANGED <<newFilePath, newFileType, targetPath, workspaceFiles, refreshes, windows>>

\* refreshWorkspaceFiles after its request: setWorkspaceFiles(data.files),
\* or the catch block
RefreshSettled ==
  /\ createPc = "list"
  /\ pc[1] = "done"
  /\ refreshes' = refreshes + 1
  /\ IF resp[1].success
     THEN workspaceFiles' = resp[1].files /\ createPc' = "effect"
     ELSE UNCHANGED workspaceFiles /\ createPc' = "idle"
  /\ UNCHANGED <<newFilePath, newFileType, targetPath, pendingWorkspaceFileToOpen,
                 created, fileVars, windows>>

\* the effect on [workspaceFiles, handleOpenFile]: the marked file is opened
\* and the mark cleared when the listing has it
WorkspaceFilesEffect ==
  /\ createPc = "effect"
  /\ createPc' = "idle"
  /\ LET pendingPath == pendingWorkspaceFileToOpen
         found == SelectSeq(workspaceFiles, LAMBDA file : file.path = pendingPath)
     IN  IF pendingPath # NoPending /\ found # <<>>
         THEN /\ windows' = OpenFileWindow(windows, Head(found))
              /\ pendingWorkspaceFileToOpen' = NoPending
         ELSE UNCHANGED <<windows, pendingWorkspaceFileToOpen>>
  /\ UNCHANGED <<newFilePath, newFileType, targetPath, workspaceFiles, created,
                 refreshes, fileVars>>

MaxRefreshes == 2

\* the interval's refresh, every five seconds while none is under way
IntervalRefresh ==
  /\ createPc = "idle"
  /\ refreshes < MaxRefreshes
  /\ ListFiles(1)
  /\ createPc' = "list"
  /\ UNCHANGED <<newFilePath, newFileType, targetPath, workspaceFiles,
                 pendingWorkspaceFileToOpen, created, refreshes, windows>>

\* the server's steps for the request under way
ServerStep ==
  /\ HandlerStep(1) \/ ReaddirAndRespond(1)
  /\ UNCHANGED <<createVars, windows>>

NextCreate ==
  \/ handleCreateSubmit
  \/ PutSettled
  \/ RefreshSettled
  \/ WorkspaceFilesEffect
  \/ IntervalRefresh
  \/ ServerStep

\* the paths typed in the form
FormPaths ==
  {<<"n", "o", "t", "e", "s", "/", "n", "e", "w", "-", "f", "i", "l", "e">>,
   <<"n", "e", "w", "-", "f", "i", "l", "e">>,
   <<" ", "a", ".", "t", "x", "t">>,
   <<"d", "/", "a", ".", "M", "D">>,
   <<"b", ".">>,
   <<"n", "/">>,
   <<"/", "a">>,
   <<"a", ".", ".", "b">>,
   <<" ">>}

FormTypes == {"markdown", "text", "csv"}

----------------------------------------------------------------------------
(* Properties of the Create File form                                      *)

IsListed(path) == SomeSeq(workspaceFiles, LAMBDA file : file.path = path)

IsOpen(id) == SomeSeq(windows, LAMBDA window : window.id = id)

HasFolderPart(path) == Includes(path, <<"/">>)

\* the file was created and a refresh that followed has completed, its
\* effect included
CreatedAndRefreshed == created /\ refreshes >= 1 /\ createPc = "idle"

\* C26: once a file has been created through the form and the next refresh
\* has completed, the listing has the file, its editor window is open and
\* the pending-open marker is cleared, whatever accepted path it has.
C26_CreatedFileIsListedAndOpened ==
  CreatedAndRefreshed =>
    /\ IsListed(targetPath)
    /\ IsOpen(FilePrefix \o targetPath)
    /\ pendingWorkspaceFileToOpen = NoPending

\* the same for the paths with no folder part
CreatedRootFileIsListedAndOpened ==
  (CreatedAndRefreshed /\ ~HasFolderPart(targetPath)) =>
    /\ IsListed(targetPath)
    /\ IsOpen(FilePrefix \o targetPath)
    /\ pendingWorkspaceFileToOpen = NoPending

\* a file in a folder is never listed, and its marker stays
FolderFileStaysPending ==
  (CreatedAndRefreshed /\ HasFolderPart(targetPath)) =>
    /\ ~IsListed(targetPath)
    /\ ~IsOpen(FilePrefix \o targetPath)
    /\ pendingWorkspaceFileToOpen = targetPath

----------------------------------------------------------------------------
(* Properties of closed agent windows                                      *)

AgentIds == {AgentPrefix \o id : id \in DescriptorIds}

IsDismissedId(id) == SomeSeq(dismissedAgentWindowIds, LAMBDA d : d = id)

InManifest(id) == SomeSeq(agentWindowConfigs, LAMBDA config : AgentWindowId(config) = id)

InRenderedManifest(id) == SomeSeq(closure.configs, LAMBDA config : AgentWindowId(config) = id)

SawDismissal(id) == SomeSeq(closure.dismissed, LAMBDA d : d = id)

----------------------------------------------------------------------------
(* MarkdownEditor.tsx and TextEditor.tsx: an open editor.  The editor keeps *)
(* value and originalValue; loadFile is a callback on [file.path,           *)
(* file.updatedAt] and an effect calls it whenever it changes.  App.tsx     *)
(* hands the editor the file object of the latest listing.  The file's      *)
(* modification time is a counter.                                          *)

VARIABLES
  value,           \* the editor's text
  originalValue,   \* the text last loaded or saved
  fileUpdatedAt,   \* file.updatedAt of the file object the editor was given
  isLoading,       \* what called the loadFile under way: "none", "effect" or "retry"
  saving,          \* the content of the PUT under way, or NoSave
  editorError,     \* the editor shows an error
  diskContent,     \* the file's content on the server
  diskMtime,       \* the file's modification time on the server
  setBy            \* what set value last (history)

editorVars == <<value, originalValue, fileUpdatedAt, isLoading, saving, editorError,
                diskContent, diskMtime, setBy>>

NoSave == "no save"

isDirty == value # originalValue

\* what the user types and what other writers store
UserTexts == {"typed 1", "typed 2"}

WriterTexts == {"agent 1"}

\* writes of the file, by the editor or by another writer
MaxWrites == 2

\* the editor has loaded the file it was opened with
InitEditor ==
  /\ value = "stored"
  /\ originalValue = "stored"
  /\ fileUpdatedAt = 0
  /\ isLoading = "none"
  /\ saving = NoSave
  /\ editorError = FALSE
  /\ diskContent = "stored"
  /\ diskMtime = 0
  /\ setBy = "load"

\* onChange / handleInput: setValue(text); the editing surface is shown
\* when the editor is neither loading nor in error
handleInput(text) ==
  /\ isLoading = "none" /\ ~editorError
  /\ value' = text
  /\ setBy' = "input"
  /\ UNCHANGED <<originalValue, fileUpdatedAt, isLoading, saving, editorError,
                 diskContent, diskMtime>>

\* handleRevert: setValue(originalValue)
handleRevert ==
  /\ isLoading = "none" /\ ~editorError
  /\ isDirty
  /\ value' = originalValue
  /\ setBy' = "revert"
  /\ UNCHANGED <<originalValue, fileUpdatedAt, isLoading, saving, editorError,
                 diskContent, diskMtime>>

\* handleSave up to its PUT request, which carries the value of this render
handleSave ==
  /\ isLoading = "none" /\ ~editorError
  /\ saving = NoSave
  /\ diskMtime < MaxWrites
  /\ saving' = value
  /\ UNCHANGED <<value, originalValue, fileUpdatedAt, isLoading, editorError,
                 diskContent, diskMtime, setBy>>

\* handleSave after its PUT: the server stores the content; on success
\* setOriginalValue(value) and onRefreshFiles(), which asks for a
\* WorkspaceRefresh
SaveSettled ==
  /\ saving # NoSave
  /\ saving' = NoSave
  /\ \/ /\ diskContent' = saving
        /\ diskMtime' = diskMtime + 1
        /\ originalValue' = saving
        /\ editorError' = FALSE
     \/ /\ editorError' = TRUE
        /\ UNCHANGED <<diskContent, diskMtime, originalValue>>
  /\ UNCHANGED <<value, fileUpdatedAt, isLoading, setBy>>

\* a workspace refresh (the interval's, the one after a command or a save)
\* as the editor sees it: the window's content is rebuilt with the file
\* object of the new listing, and the effect calls loadFile when
\* file.updatedAt is not the one of the last render
WorkspaceRefresh ==
  /\ fileUpdatedAt' = diskMtime
  /\ isLoading' = IF fileUpdatedAt # diskMtime THEN "effect" ELSE isLoading
  /\ editorError' = IF fileUpdatedAt # diskMtime THEN FALSE ELSE editorError
  /\ UNCHANGED <<value, originalValue, saving, diskContent, diskMtime, setBy>>

\* another writer (the agent, another client) stores the file
OtherWriter(text) ==
  /\ diskMtime < MaxWrites
  /\ diskContent' = text
  /\ diskMtime' = diskMtime + 1
  /\ UNCHANGED <<value, originalValue, fileUpdatedAt, isLoading, saving, editorError, setBy>>

\* the Retry button of the error view: onClick={loadFile}
handleRetry ==
  /\ editorError
  /\ isLoading = "none"
  /\ isLoading' = "retry"
  /\ editorError' = FALSE
  /\ UNCHANGED <<value, originalValue, fileUpdatedAt, saving, diskContent, diskMtime, setBy>>

\* loadFile after its GET: setValue(content), setOriginalValue(content), or
\* the catch block
LoadSettled ==
  /\ isLoading # "none"
  /\ isLoading' = "none"
  /\ \/ /\ value' = diskContent
        /\ originalValue' = diskContent
        /\ setBy' = isLoading
        /\ UNCHANGED editorError
     \/ /\ editorError' = TRUE
        /\ UNCHANGED <<value, originalValue, setBy>>
  /\ UNCHANGED <<fileUpdatedAt, saving, diskContent, diskMtime>>

NextEditor ==
  \/ \E text \in UserTexts : handleInput(text)
  \/ handleRevert
  \/ handleSave
  \/ SaveSettled
  \/ WorkspaceRefresh
  \/ \E text \in WriterTexts : OtherWriter(text)
  \/ handleRetry
  \/ LoadSettled

----------------------------------------------------------------------------
(* Properties of the open editor                                           *)

\* C29: while the editor has unsaved changes, a step that replaces its
\* value is a user action (typing, Revert, or the load the Retry button
\* asked for): the load that a workspace refresh brings about never
\* replaces an unsaved value.
C29_UnsavedValueReplacedOnlyByUser ==
  [][(isDirty /\ value' # value) => setBy' \in {"input", "revert", "retry"}]_editorVars

\* a refresh that reports the modification time the editor already has
\* starts no load and leaves the value as it is
RefreshWithSameTimeKeepsValue ==
  [][(fileUpdatedAt = diskMtime /\ diskMtime' = diskMtime /\ isLoading = "none")
       => (isLoading' \in {"none", "retry"} /\ (value' # value => setBy' \in {"input", "revert"}))]_editorVars

----------------------------------------------------------------------------
(* App.tsx: the other operations on the window list.  Date.now() is the    *)
(* wall clock in milliseconds: it may return the value it returned before  *)
(* (a coarse or adjusted clock), so it is any value up to MaxClock.        *)

VARIABLES now   \* the value Date.now() returned for the last placeholder window

clockVars == <<now>>

MaxClock == 2

InitClock == now = 0

RecycleBinId == <<"r", "e", "c", "y", "c", "l", "e", "-", "b", "i", "n">>

RecycleBinWindow ==
  [id |-> RecycleBinId, title |-> "Recycle Bin",
   content |-> [type |-> "RecycleBin", filePath |-> <<>>, title |-> "undefined"],
   agentSignature |-> <<>>, agentComponent |-> "undefined"]

\* handleOpenRecycleBin: openStaticWindow with the Recycle Bin window
handleOpenRecycleBin ==
  /\ windows' = FilterSeq(windows, LAMBDA item : item.id # RecycleBinId)
                  \o <<RecycleBinWindow>>
  /\ UNCHANGED <<agentWindowConfigs, dismissedAgentWindowIds, closure, effects, dirty>>

\* the files of the listing that My Computer offers to open
OpenableFiles == {[name |-> <<"n">>, path |-> <<"n">>, size |-> 0]}

\* handleOpenFile
handleOpenFile(file) ==
  /\ windows' = OpenFileWindow(windows, file)
  /\ UNCHANGED <<agentWindowConfigs, dismissedAgentWindowIds, closure, effects, dirty>>

PlaceholderPrefix == <<"w", "i", "n", "d", "o", "w", "-">>

\* `window-${Date.now()}`
PlaceholderId(t) == PlaceholderPrefix \o <<<<"0", "1", "2", "3">>[t + 1]>>

PlaceholderWindow(t) ==
  [id |-> PlaceholderId(t), title |-> "Request",
   content |-> [type |-> "Preview", filePath |-> <<>>, title |-> "undefined"],
   agentSignature |-> <<>>, agentComponent |-> "undefined"]

\* createCommandWindow, called by the catch block of handleCommand
createCommandWindow ==
  \E t \in 1..MaxClock :
    /\ now' = t
    /\ windows' = windows \o <<PlaceholderWindow(t)>>
    /\ UNCHANGED <<agentWindowConfigs, dismissedAgentWindowIds, closure, effects, dirty>>

\* the manifests of markdown windows whose descriptors have distinct ids
DistinctManifests ==
  {manifest \in Manifests :
     /\ DistinctIds(manifest)
     /\ \A i \in 1..Len(manifest) : manifest[i].kind = "markdown"}

\* the windows the desktop may hold before another is opened
MaxDesktopWindows == 3

NextDesktop ==
  \/ /\ \/ \E manifest \in DistinctManifests : AcceptManifest(manifest)
        \/ \E i \in 1..Len(windows) : handleCloseWindow(windows[i].id)
        \/ PruneEffect
        \/ ReconcileEffect
        \/ Render
        \/ /\ Len(windows) < MaxDesktopWindows
           /\ \/ openStaticWindow
              \/ handleOpenRecycleBin
              \/ \E file \in OpenableFiles : handleOpenFile(file)
     /\ UNCHANGED now
  \/ Len(windows) < MaxDesktopWindows /\ createCommandWindow

----------------------------------------------------------------------------
(* Properties of the window list                                           *)

DistinctWindowIds ==
  \A i, j \in 1..Len(windows) : windows[i].id = windows[j].id => i = j

IsLast(list, id) == list # <<>> /\ list[Len(list)].id = id

OpenableIds ==
  {MyComputerId, RecycleBinId} \cup {FilePrefix \o file.path : file \in OpenableFiles}

\* C30: no two windows of the list share an id, and a step that brings a
\* window that is open to the end of the list without closing another
\* keeps the length of the list and the order of the other windows: the
\* window is replaced and moved, not added a second time.
C30_WindowIdsAreDistinct ==
  /\ []DistinctWindowIds
  /\ [][\A id \in OpenableIds :
          (IsOpen(id) /\ ~IsLast(windows, id) /\ IsLast(windows', id)
             /\ Len(windows') >= Len(windows))
            => /\ Len(windows') = Len(windows)
               /\ FilterSeq(windows', LAMBDA item : item.id # id)
                    = FilterSeq(windows, LAMBDA item : item.id # id)]_appVars

\* the same, but for placeholder windows made at the same Date.now(): the
\* windows that share an id are placeholder windows
WindowIdsAreDistinctButPlaceholders ==
  /\ [](\A i, j \in 1..Len(windows) :
          (windows[i].id = windows[j].id /\ i # j)
            => StartsWith(windows[i].id, PlaceholderPrefix))
  /\ [][\A id \in OpenableIds :
          (IsOpen(id) /\ ~IsLast(windows, id) /\ IsLast(windows', id)
             /\ Len(windows') >= Len(windows))
            => /\ Len(windows') = Len(windows)
               /\ FilterSeq(windows', LAMBDA item : item.id # id)
                    = FilterSeq(windows, LAMBDA item : item.id # id)]_appVars

----------------------------------------------------------------------------
(* Specifications                                                          *)

vars == <<fileVars, agentVars, simulatorVars, markdownVars, appVars, statsVars, apiVars, todoVars, createVars, editorVars, clockVars>>

Init == InitFiles /\ InitAgent /\ InitSimulator /\ InitMarkdown /\ InitApp /\ InitStats /\ InitApi /\ InitTodo /\ InitCreate /\ InitEditor /\ InitClock

\* the file endpoints and the simulator read neither flag: their
\* specifications start with both unset
SpecPaths ==
  Init /\ ~USE_REAL_AGENT /\ ~DEBUG_AGENT
    /\ [][NextPaths /\ UNCHANGED <<agentVars, simulatorVars, markdownVars, appVars, statsVars, apiVars, todoVars, createVars, editorVars, clockVars>>]_vars

SpecContent ==
  Init /\ ~USE_REAL_AGENT /\ ~DEBUG_AGENT
    /\ [][NextContent /\ UNCHANGED <<agentVars, simulatorVars, markdownVars, appVars, statsVars, apiVars, todoVars, createVars, editorVars, clockVars>>]_vars

SpecRace ==
  Init /\ ~USE_REAL_AGENT /\ ~DEBUG_AGENT
    /\ [][NextRace /\ UNCHANGED <<agentVars, simulatorVars, markdownVars, appVars, statsVars, apiVars, todoVars, createVars, editorVars, clockVars>>]_vars

SpecList ==
  Init /\ ~USE_REAL_AGENT /\ ~DEBUG_AGENT
    /\ [][NextList /\ UNCHANGED <<agentVars, simulatorVars, markdownVars, appVars, statsVars, apiVars, todoVars, createVars, editorVars, clockVars>>]_vars

SpecCommand ==
  Init /\ [][NextCommand /\ UNCHANGED <<fileVars, simulatorVars, markdownVars, appVars, statsVars, apiVars, todoVars, createVars, editorVars, clockVars>>]_vars

InitClassify ==
  /\ InitFiles /\ InitAgent /\ InitMarkdown /\ InitApp /\ InitStats /\ InitApi /\ InitTodo /\ InitCreate /\ InitEditor /\ InitClock /\ ~USE_REAL_AGENT /\ ~DEBUG_AGENT
  /\ userCommand \in ClassifyCommands
  /\ experience = NoExperience

SpecClassify ==
  InitClassify /\ [][NextSimulator /\ UNCHANGED <<fileVars, agentVars, markdownVars, appVars, statsVars, apiVars, todoVars, createVars, editorVars, clockVars>>]_vars

InitExtract ==
  /\ InitFiles /\ InitAgent /\ InitMarkdown /\ InitApp /\ InitStats /\ InitApi /\ InitTodo /\ InitCreate /\ InitEditor /\ InitClock /\ ~USE_REAL_AGENT /\ ~DEBUG_AGENT
  /\ userCommand \in ExtractCommands
  /\ experience = NoExperience

SpecExtract ==
  InitExtract /\ [][NextSimulator /\ UNCHANGED <<fileVars, agentVars, markdownVars, appVars, statsVars, apiVars, todoVars, createVars, editorVars, clockVars>>]_vars

InitTitle ==
  /\ InitFiles /\ InitAgent /\ InitMarkdown /\ InitApp /\ InitStats /\ InitApi /\ InitTodo /\ InitCreate /\ InitEditor /\ InitClock /\ ~USE_REAL_AGENT /\ ~DEBUG_AGENT
  /\ userCommand \in TitleCommands
  /\ experience = NoExperience

SpecTitle ==
  InitTitle /\ [][NextSimulator /\ UNCHANGED <<fileVars, agentVars, markdownVars, appVars, statsVars, apiVars, todoVars, createVars, editorVars, clockVars>>]_vars

InitProfile ==
  /\ InitFiles /\ InitAgent /\ InitMarkdown /\ InitApp /\ InitStats /\ InitApi /\ InitTodo /\ InitCreate /\ InitEditor /\ InitClock /\ ~USE_REAL_AGENT /\ ~DEBUG_AGENT
  /\ userCommand \in ClassifyCommands \cup ExtractCommands
  /\ experience = NoExperience

SpecProfile ==
  InitProfile /\ [][NextSimulator /\ UNCHANGED <<fileVars, agentVars, markdownVars, appVars, statsVars, apiVars, todoVars, createVars, editorVars, clockVars>>]_vars

InitRender ==
  /\ InitFiles /\ InitAgent /\ InitSimulator /\ InitApp /\ InitStats /\ InitApi /\ InitTodo /\ InitCreate /\ InitEditor /\ InitClock /\ ~USE_REAL_AGENT /\ ~DEBUG_AGENT
  /\ markdown \in Documents(MaxLines)
  /\ lines = <<>> /\ lineNo = 0 /\ html = <<>>
  /\ inList = FALSE /\ inCode = FALSE
  /\ rendered = <<>> /\ mdPc = "start"

SpecRender ==
  InitRender
    /\ [][NextMarkdown /\ UNCHANGED <<fileVars, agentVars, simulatorVars, appVars, statsVars, apiVars, todoVars, createVars, editorVars, clockVars>>]_vars

\* the desktop mounts with the manifest the bundle was built with; every
\* effect runs after the first render
InitWindows ==
  /\ InitFiles /\ InitAgent /\ InitSimulator /\ InitMarkdown /\ InitStats /\ InitApi /\ InitTodo /\ InitCreate /\ InitEditor /\ InitClock
  /\ ~USE_REAL_AGENT /\ ~DEBUG_AGENT
  /\ windows = <<>>
  /\ agentWindowConfigs \in Manifests
  /\ dismissedAgentWindowIds = <<>>
  /\ closure = [configs |-> agentWindowConfigs, dismissed |-> <<>>]
  /\ effects = {"prune", "reconcile"}
  /\ dirty = {}

SpecWindows ==
  InitWindows
    /\ [][NextApp /\ UNCHANGED <<fileVars, agentVars, simulatorVars, markdownVars, statsVars, apiVars, todoVars, createVars, editorVars, clockVars>>]_vars

\* the event loop runs every callback that is due: the spawn after the
\* pre-flight checks, the timer, the listeners of the events the child has
\* emitted and their continuations.  When the subprocess closes is up to
\* the subprocess.
FairCommand ==
  /\ WF_vars((\E bundleOk, spawnOk \in BOOLEAN : SpawnAgent(1, bundleOk, spawnOk))
               /\ UNCHANGED <<fileVars, simulatorVars, markdownVars, appVars, statsVars, apiVars, todoVars, createVars, editorVars, clockVars>>)
  /\ WF_vars(TimerFires(1) /\ UNCHANGED <<fileVars, simulatorVars, markdownVars, appVars, statsVars, apiVars, todoVars, createVars, editorVars, clockVars>>)
  /\ WF_vars(CloseSettles(1) /\ UNCHANGED <<fileVars, simulatorVars, markdownVars, appVars, statsVars, apiVars, todoVars, createVars, editorVars, clockVars>>)
  /\ WF_vars(ChildError(1) /\ UNCHANGED <<fileVars, simulatorVars, markdownVars, appVars, statsVars, apiVars, todoVars, createVars, editorVars, clockVars>>)
  /\ WF_vars(ErrorSettles(1) /\ UNCHANGED <<fileVars, simulatorVars, markdownVars, appVars, statsVars, apiVars, todoVars, createVars, editorVars, clockVars>>)

SpecCommandFair == SpecCommand /\ FairCommand

SpecStats ==
  Init /\ ~USE_REAL_AGENT /\ ~DEBUG_AGENT
    /\ [][NextStats /\ UNCHANGED <<fileVars, agentVars, simulatorVars, markdownVars, appVars, apiVars, todoVars, createVars, editorVars, clockVars>>]_vars

SpecCommands ==
  Init /\ [][NextCommands /\ UNCHANGED <<fileVars, simulatorVars, markdownVars, appVars, statsVars, apiVars, todoVars, createVars, editorVars, clockVars>>]_vars

\* one call of requestJson, for every configured base and every method
InitRequest ==
  /\ InitFiles /\ InitAgent /\ InitSimulator /\ InitMarkdown /\ InitApp /\ InitStats /\ InitTodo /\ InitCreate /\ InitEditor /\ InitClock
  /\ ~USE_REAL_AGENT /\ ~DEBUG_AGENT
  /\ rawEnvBase \in EnvBases
  /\ init \in Methods
  /\ bases = <<>>
  /\ baseIndex = 0
  /\ contacted = <<>>
  /\ lastError = NoError
  /\ outcome = [state |-> "pending", error |-> NoError]
  /\ apiPc = "idle"

SpecRequest ==
  InitRequest
    /\ [][NextApi /\ UNCHANGED <<fileVars, agentVars, simulatorVars, markdownVars, appVars, statsVars, todoVars, createVars, editorVars, clockVars>>]_vars

\* renderMarkdown on one line of inline text
InitInline ==
  /\ InitFiles /\ InitAgent /\ InitSimulator /\ InitApp /\ InitStats /\ InitApi /\ InitTodo /\ InitCreate /\ InitEditor /\ InitClock
  /\ ~USE_REAL_AGENT /\ ~DEBUG_AGENT
  /\ markdown \in InlineTexts(MaxTokens)
  /\ lines = <<>> /\ lineNo = 0 /\ html = <<>>
  /\ inList = FALSE /\ inCode = FALSE
  /\ rendered = <<>> /\ mdPc = "start"

SpecInline ==
  InitInline
    /\ [][NextMarkdown /\ UNCHANGED <<fileVars, agentVars, simulatorVars, appVars, statsVars, apiVars, todoVars, createVars, editorVars, clockVars>>]_vars

\* renderMarkdown on documents of heading lines
InitHeadings ==
  /\ InitFiles /\ InitAgent /\ InitSimulator /\ InitApp /\ InitStats /\ InitApi /\ InitTodo /\ InitCreate /\ InitEditor /\ InitClock
  /\ ~USE_REAL_AGENT /\ ~DEBUG_AGENT
  /\ markdown \in HeadingDocuments(MaxHeadingLines)
  /\ lines = <<>> /\ lineNo = 0 /\ html = <<>>
  /\ inList = FALSE /\ inCode = FALSE
  /\ rendered = <<>> /\ mdPc = "start"

SpecHeadings ==
  InitHeadings
    /\ [][NextMarkdown /\ UNCHANGED <<fileVars, agentVars, simulatorVars, appVars, statsVars, apiVars, todoVars, createVars, editorVars, clockVars>>]_vars

\* generateSmartTodoList on every command of TodoCommands
InitTodoCommands ==
  /\ InitFiles /\ InitAgent /\ InitSimulator /\ InitMarkdown /\ InitApp /\ InitStats /\ InitApi /\ InitCreate /\ InitEditor /\ InitClock
  /\ ~USE_REAL_AGENT /\ ~DEBUG_AGENT
  /\ todoCommand \in TodoCommands
  /\ written = NoFile

SpecTodo ==
  InitTodoCommands
    /\ [][NextTodo /\ UNCHANGED <<fileVars, agentVars, simulatorVars, markdownVars, appVars, statsVars, apiVars, createVars, editorVars, clockVars>>]_vars

\* the Create File form submitted once, with every path and type
InitForm ==
  /\ InitFiles /\ InitAgent /\ InitSimulator /\ InitMarkdown /\ InitApp /\ InitStats /\ InitApi /\ InitTodo /\ InitEditor /\ InitClock
  /\ ~USE_REAL_AGENT /\ ~DEBUG_AGENT
  /\ newFilePath \in FormPaths
  /\ newFileType \in FormTypes
  /\ createPc = "form"
  /\ targetPath = <<>>
  /\ workspaceFiles = <<>>
  /\ pendingWorkspaceFileToOpen = NoPending
  /\ created = FALSE
  /\ refreshes = 0

SpecCreate ==
  InitForm
    /\ [][NextCreate
            /\ UNCHANGED <<agentVars, simulatorVars, markdownVars, statsVars, apiVars, todoVars,
                           editorVars, clockVars,
                           agentWindowConfigs, dismissedAgentWindowIds, closure, effects, dirty>>]_vars

\* an open editor, the user, the refreshes and another writer
SpecEditor ==
  Init /\ ~USE_REAL_AGENT /\ ~DEBUG_AGENT
    /\ [][NextEditor /\ UNCHANGED <<fileVars, agentVars, simulatorVars, markdownVars, appVars, statsVars, apiVars, todoVars, createVars, clockVars>>]_vars

\* the desktop mounted with a manifest of distinct ids, and every
\* operation on its window list
InitDesktop ==
  /\ InitFiles /\ InitAgent /\ InitSimulator /\ InitMarkdown /\ InitStats /\ InitApi /\ InitTodo /\ InitCreate /\ InitEditor /\ InitClock
  /\ ~USE_REAL_AGENT /\ ~DEBUG_AGENT
  /\ windows = <<>>
  /\ agentWindowConfigs \in DistinctManifests
  /\ dismissedAgentWindowIds = <<>>
  /\ closure = [configs |-> agentWindowConfigs, dismissed |-> <<>>]
  /\ effects = {"prune", "reconcile"}
  /\ dirty = {}

SpecDesktop ==
  InitDesktop
    /\ [][NextDesktop /\ UNCHANGED <<fileVars, agentVars, simulatorVars, markdownVars, statsVars, apiVars, todoVars, createVars, editorVars>>]_vars

=============================================================================
